---- MODULE Spec2Model ----
(***************************************************************************)
(* databridger: relationship inference (CSVStrategy.get_mapping), the      *)
(* table graph (Database.table_mapping), the path resolver                 *)
(* (_get_relationship_path, _get_multi_rel_path), the merge planner        *)
(* (_get_merge_sequence_from_path) and the merge executor (easy_merge).    *)
(*                                                                         *)
(* A pandas Series is a sequence of values; NaN is the value NaN below.    *)
(* A DataFrame of the Table Store is a record                              *)
(*   [name, columns (ordered column names), series (column -> Series)].    *)
(* A raised Python exception is a result record whose field "raised" names *)
(* the exception type; "none" means the call returned normally.            *)
(***************************************************************************)
EXTENDS Integers, Sequences, FiniteSets, TLC

VARIABLES
    strategy,         \* "csv" (CSVStrategy) or "sql" (SQLStrategy)
    tables,           \* Database.tables: sequence of DataFrames, in dict order
    columns_mapping,  \* Database.columns_mapping: sequence of rows
    table_mapping,    \* Database.table_mapping: from_table -> list of to_table
    phase,            \* "loaded" before __init__ lines 262-263 ran, then "ready"
    call,             \* the last call made on the Database
    ret,              \* what that call returned or raised
    frames,           \* the stack of a running _get_relationship_path
    exec,             \* the locals of a running easy_merge
    amendments,       \* assignments made to columns_mapping after __init__
    tracker           \* an IssueTracker: its df (the rows) and its issue_count

vars == <<strategy, tables, columns_mapping, table_mapping, phase, call, ret,
          frames, exec, amendments, tracker>>

----------------------------------------------------------------------------
(* Bounds of the model *)

\* values of a cell are NaN or 1..MaxVal
MaxVal == 2
\* a table of the exhaustive inference stores has 0..MaxRows rows
MaxRows == 2
\* declared foreign keys of an SQL store
MaxFKs == 2
\* tables named in one easy_merge request
MaxReq == 3
\* assignments made to columns_mapping after __init__
MaxAmend == 1

\* pandas NaN / None, dropped by Series.dropna()
NaN == 0

Values == 0..MaxVal

----------------------------------------------------------------------------
(* Generic helpers *)

Range(s) == {s[i] : i \in DOMAIN s}

SeqContains(s, x) == \E i \in DOMAIN s : s[i] = x

\* the concatenation of a sequence of sequences
RECURSIVE Flatten(_)
Flatten(ss) == IF ss = <<>> THEN <<>> ELSE Head(ss) \o Flatten(Tail(ss))

\* all orders in which the elements of a finite set can be iterated
RECURSIVE IterationOrders(_)
IterationOrders(S) ==
    IF S = {} THEN {<<>>}
    ELSE UNION {{<<x>> \o p : p \in IterationOrders(S \ {x})} : x \in S}

----------------------------------------------------------------------------
(* The Table Store *)

TableNames(tabs) == [i \in DOMAIN tabs |-> tabs[i].name]

Tab(tabs, t) == (CHOOSE i \in DOMAIN tabs : tabs[i].name = t)

\* tables[table][column]
Series(tabs, t, c) == tabs[Tab(tabs, t)].series[c]

\* tables[table].columns
ColumnsOf(tabs, t) == tabs[Tab(tabs, t)].columns

\* len(df)
NumRows(df) == IF df.columns = <<>> THEN 0 ELSE Len(df.series[df.columns[1]])

\* mutant: a column that holds a missing value is not unique
is_unique_without_missing(s) ==
    /\ \A i, j \in DOMAIN s : s[i] = s[j] => i = j
    /\ \A i \in DOMAIN s : s[i] # NaN

\* Series.is_unique: no value occurs twice, NaN counted like any other value
is_unique(s) == \A i, j \in DOMAIN s : s[i] = s[j] => i = j

\* set(Series.dropna())
DropnaSet(s) == {s[i] : i \in DOMAIN s} \ {NaN}

----------------------------------------------------------------------------
(* CSVStrategy.get_mapping *)

\* ssr_threshold = 0.95, as a percentage
SsrThresholdPct == 95

\* mutant: the ratio taken over the primary candidate's distinct values
subset_ratio_over_from_set(from_column, to_column) ==
    LET from_set == DropnaSet(from_column)
        to_set == DropnaSet(to_column)
        matching_entries == Cardinality(from_set \cap to_set)
        total_entries == Cardinality(from_set)
    IN  IF total_entries # 0
        THEN [num |-> matching_entries, den |-> total_entries]
        ELSE [num |-> 0, den |-> 0]

\* a subset ratio is kept exact, as numerator and denominator; den = 0 stands
\* for the value 0 returned for an empty to_set
_compute_subset_ratio(from_column, to_column) ==
    LET from_set == DropnaSet(from_column)
        to_set == DropnaSet(to_column)
        matching_entries == Cardinality(from_set \cap to_set)
        total_entries == Cardinality(to_set)
    IN  IF total_entries # 0
        THEN [num |-> matching_entries, den |-> total_entries]
        ELSE [num |-> 0, den |-> 0]

\* ssr >= ssr_threshold
AboveThreshold(ssr) ==
    IF ssr.den = 0 THEN FALSE
    ELSE 100 * ssr.num >= SsrThresholdPct * ssr.den

\* [(table, column) for table in tables.keys() for column in tables[table].columns]
AllTableColumnPairs(tabs) ==
    Flatten([i \in DOMAIN tabs |->
        [k \in DOMAIN tabs[i].columns |->
            [table |-> tabs[i].name, column |-> tabs[i].columns[k]]]])

\* mutant: every column is a candidate primary key
primary_keys_without_is_unique(tabs) == AllTableColumnPairs(tabs)

potential_primary_keys(tabs) ==
    SelectSeq(AllTableColumnPairs(tabs),
              LAMBDA p : is_unique(Series(tabs, p.table, p.column)))

potential_foreign_keys(tabs) == AllTableColumnPairs(tabs)

\* the body of the two nested loops for one (primary, foreign) pair: the rows
\* (none or one) it appends to df_column_mapping
MappingRowsFor(tabs, a, b) ==
    IF a # b
    THEN LET ssr == _compute_subset_ratio(Series(tabs, a.table, a.column),
                                          Series(tabs, b.table, b.column))
         IN  IF AboveThreshold(ssr)
             THEN << [from_table |-> b.table, from_column |-> b.column,
                      to_table |-> a.table, to_column |-> a.column,
                      subset_ratio |-> ssr] >>
             ELSE <<>>
    ELSE <<>>

get_mapping(tabs) ==
    LET pks == potential_primary_keys(tabs)
        fks == potential_foreign_keys(tabs)
    IN  Flatten([i \in DOMAIN pks |->
            Flatten([j \in DOMAIN fks |-> MappingRowsFor(tabs, pks[i], fks[j])])])

----------------------------------------------------------------------------
(* Database.__init__: the table graph *)

\* mutant: a graph looser than the Relationship Set, with every relationship
\* listed under both of its tables
table_mapping_either_direction(cm) ==
    [t \in {cm[i].from_table : i \in DOMAIN cm} \cup {cm[i].to_table : i \in DOMAIN cm} |->
        LET rows == SelectSeq(cm, LAMBDA r : r.from_table = t \/ r.to_table = t)
        IN  [k \in DOMAIN rows |->
                IF rows[k].from_table = t THEN rows[k].to_table ELSE rows[k].from_table]]

\* dict(columns_mapping[["from_table", "to_table"]]
\*          .groupby("from_table")["to_table"].apply(list))
TableMappingOf(cm) ==
    [t \in {cm[i].from_table : i \in DOMAIN cm} |->
        LET rows == SelectSeq(cm, LAMBDA r : r.from_table = t)
        IN  [k \in DOMAIN rows |-> rows[k].to_table]]

----------------------------------------------------------------------------
(* Results of calls *)

\* Python None where a path is expected, and a returned path
None == [none |-> TRUE, path |-> <<>>]
Some(p) == [none |-> FALSE, path |-> p]

Returned(v) == [raised |-> "none", msg |-> <<>>, value |-> v]
Raised(type, msg) == [raised |-> type, msg |-> msg, value |-> <<>>]

----------------------------------------------------------------------------
(* Database._get_relationship_path *)

\* min(all_paths, key=len): the first element of minimal length
MinByLen(ps) ==
    ps[CHOOSE i \in DOMAIN ps :
          /\ \A j \in DOMAIN ps : Len(ps[i]) <= Len(ps[j])
          /\ \A j \in 1..(i - 1) : Len(ps[j]) > Len(ps[i])]

RECURSIVE PathSearch(_, _, _, _)
RECURSIVE PathSearchLoop(_, _, _, _, _, _)

\* one (recursive) call: the list all_paths it builds, or the KeyError of
\* self.table_mapping[starting_table]
PathSearch(tm, starting_table, ending_table, paths) ==
    IF starting_table \notin DOMAIN tm
    THEN [raised |-> "KeyError", msg |-> <<starting_table>>, all_paths |-> <<>>]
    ELSE PathSearchLoop(tm, starting_table, ending_table, paths, 1, <<>>)

\* the for loop over self.table_mapping[starting_table], from its i-th element
PathSearchLoop(tm, starting_table, ending_table, paths, i, all_paths) ==
    IF i > Len(tm[starting_table])
    THEN [raised |-> "none", msg |-> <<>>, all_paths |-> all_paths]
    ELSE LET next_table == tm[starting_table][i]
         IN  IF next_table = ending_table
             THEN PathSearchLoop(tm, starting_table, ending_table, paths, i + 1,
                                 Append(all_paths, Append(paths, next_table)))
             ELSE IF ~SeqContains(paths, next_table)
             THEN LET sub == PathSearch(tm, next_table, ending_table,
                                        Append(paths, next_table))
                  IN  IF sub.raised # "none" THEN sub
                      ELSE PathSearchLoop(tm, starting_table, ending_table, paths,
                                          i + 1, all_paths \o sub.all_paths)
             ELSE PathSearchLoop(tm, starting_table, ending_table, paths, i + 1,
                                 all_paths)

\* the top-level call (paths is None)
_get_relationship_path(tm, starting_table, ending_table) ==
    LET r == PathSearch(tm, starting_table, ending_table, <<starting_table>>)
    IN  IF r.raised # "none" THEN Raised(r.raised, r.msg)
        ELSE IF r.all_paths = <<>> THEN Returned(None)
        ELSE Returned(Some(MinByLen(r.all_paths)))

----------------------------------------------------------------------------
(* Database._get_multi_rel_path *)

\* iterating a Python set of table names: its elements in the order the
\* string hashes of this run give, here the order of hash_order
SetIteration(hash_order, S) == SelectSeq(hash_order, LAMBDA t : t \in S)

\* set(element for sublist in sub_paths for element in sublist)
DistinctTables(sub_paths) ==
    UNION {Range(sub_paths[i].path) : i \in DOMAIN sub_paths}

\* mutant: the path from the first covered table instead of the shortest
next_sub_path_from_first_source(tm, sources, table) ==
    _get_relationship_path(tm, sources[1], table)

\* mutant: the path from the covered table iterated last instead of the shortest
next_sub_path_from_last_source(tm, sources, table) ==
    _get_relationship_path(tm, sources[Len(sources)], table)

\* min([self._get_relationship_path(s, table) for s in distinct_tables], key=len)
NextSubPath(tm, sources, table) ==
    LET results == [i \in DOMAIN sources |->
                       _get_relationship_path(tm, sources[i], table)]
        failed == {i \in DOMAIN results : results[i].raised # "none"}
    IN  IF failed # {}
        THEN LET i == CHOOSE k \in failed : \A m \in failed : k <= m
             IN  Raised(results[i].raised, results[i].msg)
        ELSE IF \E i \in DOMAIN results : results[i].value.none
        THEN Raised("TypeError", <<"object of type 'NoneType' has no len()">>)
        ELSE Returned(Some(MinByLen([i \in DOMAIN results |-> results[i].value.path])))

\* mutant: the loop without "if table not in distinct_tables"
RECURSIVE multi_rel_path_loop_without_skip(_, _, _, _, _)
multi_rel_path_loop_without_skip(tm, list_of_tables, hash_orders, k, sub_paths) ==
    IF k > Len(list_of_tables) THEN Returned(sub_paths)
    ELSE IF \E i \in DOMAIN sub_paths : sub_paths[i].none
    THEN Raised("TypeError", <<"'NoneType' object is not iterable">>)
    ELSE LET next_sub_path ==
                 NextSubPath(tm, SetIteration(hash_orders[k], DistinctTables(sub_paths)),
                             list_of_tables[k])
         IN  IF next_sub_path.raised # "none"
             THEN Raised(next_sub_path.raised, next_sub_path.msg)
             ELSE multi_rel_path_loop_without_skip(tm, list_of_tables, hash_orders,
                                                   k + 1,
                                                   Append(sub_paths, next_sub_path.value))

\* the for loop over list_of_tables[2:]; hash_orders[k] is the iteration
\* order of distinct_tables when the k-th requested table is handled
RECURSIVE MultiRelPathLoop(_, _, _, _, _)
MultiRelPathLoop(tm, list_of_tables, hash_orders, k, sub_paths) ==
    IF k > Len(list_of_tables) THEN Returned(sub_paths)
    ELSE IF \E i \in DOMAIN sub_paths : sub_paths[i].none
    THEN Raised("TypeError", <<"'NoneType' object is not iterable">>)
    ELSE LET table == list_of_tables[k]
             distinct_tables == DistinctTables(sub_paths)
         IN  IF table \notin distinct_tables
             THEN LET next_sub_path ==
                          NextSubPath(tm, SetIteration(hash_orders[k], distinct_tables),
                                      table)
                  IN  IF next_sub_path.raised # "none"
                      THEN Raised(next_sub_path.raised, next_sub_path.msg)
                      ELSE MultiRelPathLoop(tm, list_of_tables, hash_orders, k + 1,
                                            Append(sub_paths, next_sub_path.value))
             ELSE MultiRelPathLoop(tm, list_of_tables, hash_orders, k + 1, sub_paths)

_get_multi_rel_path(tm, list_of_tables, hash_orders) ==
    IF Len(list_of_tables) < 2
    THEN Raised("TypeError", <<"missing 1 required positional argument">>)
    ELSE LET first == _get_relationship_path(tm, list_of_tables[1], list_of_tables[2])
         IN  IF first.raised # "none" THEN Raised(first.raised, first.msg)
             ELSE MultiRelPathLoop(tm, list_of_tables, hash_orders, 3, <<first.value>>)

----------------------------------------------------------------------------
(* Database._get_merge_sequence_from_path *)

\* mutant: the rows between the two tables in either direction
next_mapping_either_direction(cm, left_table, right_table) ==
    SelectSeq(cm, LAMBDA r :
        \/ r.from_table = left_table /\ r.to_table = right_table
        \/ r.from_table = right_table /\ r.to_table = left_table)

\* self.columns_mapping[(from_table == left_table) & (to_table == right_table)]
NextMapping(cm, left_table, right_table) ==
    SelectSeq(cm, LAMBDA r : r.from_table = left_table /\ r.to_table = right_table)

\* the inner loop over zip(sub_path[:-1], sub_path[1:]), from its k-th pair
RECURSIVE MergeSequenceOfSubPath(_, _, _, _)
MergeSequenceOfSubPath(cm, sub_path, k, sequence) ==
    IF k >= Len(sub_path) THEN Returned(sequence)
    ELSE LET left_table == sub_path[k]
             right_table == sub_path[k + 1]
             next_mapping == NextMapping(cm, left_table, right_table)
         IN  IF Len(next_mapping) = 1
             THEN MergeSequenceOfSubPath(cm, sub_path, k + 1,
                                         Append(sequence, next_mapping[1]))
             ELSE Raised("Exception",
                         <<"No mapping found between " \o left_table
                             \o " and " \o right_table>>)

\* the outer loop over multi_relationship_path, from its i-th sub-path
RECURSIVE MergeSequenceLoop(_, _, _, _)
MergeSequenceLoop(cm, multi_relationship_path, i, sequence) ==
    IF i > Len(multi_relationship_path) THEN Returned(sequence)
    ELSE IF multi_relationship_path[i].none
    THEN Raised("TypeError", <<"'NoneType' object is not subscriptable">>)
    ELSE LET r == MergeSequenceOfSubPath(cm, multi_relationship_path[i].path, 1,
                                         sequence)
         IN  IF r.raised # "none" THEN r
             ELSE MergeSequenceLoop(cm, multi_relationship_path, i + 1, r.value)

_get_merge_sequence_from_path(cm, multi_relationship_path) ==
    MergeSequenceLoop(cm, multi_relationship_path, 1, <<>>)

----------------------------------------------------------------------------
(* Database.easy_merge *)

\* a merged DataFrame: its column labels and its rows (tuples of cells)
IndexOf(seq, x) == CHOOSE i \in DOMAIN seq : seq[i] = x

\* df = self.tables[t].copy(); df.columns = [f"{t}_" + col for col in df.columns]
PrefixedCopy(tabs, t) ==
    LET df == tabs[Tab(tabs, t)]
    IN  [columns |-> [k \in DOMAIN df.columns |-> t \o "_" \o df.columns[k]],
         rows |-> [r \in 1..NumRows(df) |->
                      [k \in DOMAIN df.columns |-> df.series[df.columns[k]][r]]]]

\* pd.merge(left, right, left_on=..., right_on=...): the inner join, where
\* pandas lets a NaN key match a NaN key; labels that occur on both sides
\* get the suffixes _x and _y
PdMerge(left, right, left_on, right_on) ==
    IF ~SeqContains(left.columns, left_on) THEN Raised("KeyError", <<left_on>>)
    ELSE IF ~SeqContains(right.columns, right_on) THEN Raised("KeyError", <<right_on>>)
    ELSE LET lk == IndexOf(left.columns, left_on)
             rk == IndexOf(right.columns, right_on)
             common == Range(left.columns) \cap Range(right.columns)
             matches(i) == SelectSeq(right.rows, LAMBDA rr : rr[rk] = left.rows[i][lk])
         IN  Returned(
               [columns |->
                    [k \in DOMAIN left.columns |->
                        IF left.columns[k] \in common
                        THEN left.columns[k] \o "_x" ELSE left.columns[k]]
                    \o [k \in DOMAIN right.columns |->
                        IF right.columns[k] \in common
                        THEN right.columns[k] \o "_y" ELSE right.columns[k]],
                rows |->
                    Flatten([i \in DOMAIN left.rows |->
                        [j \in DOMAIN matches(i) |-> left.rows[i] \o matches(i)[j]]])])

\* the for loop over merge_sequence, from its i-th step; df is None when
\* is_none holds
RECURSIVE MergeLoop(_, _, _, _, _)
MergeLoop(tabs, merge_sequence, i, is_none, df) ==
    IF i > Len(merge_sequence) THEN Returned([is_none |-> is_none, df |-> df])
    ELSE LET step == merge_sequence[i]
         IN  IF Cardinality(DOMAIN step) # 4
             THEN Raised("ValueError", <<"too many values to unpack (expected 4)">>)
             ELSE LET df1 == PrefixedCopy(tabs, step.from_table)
                      df2 == PrefixedCopy(tabs, step.to_table)
                      merged ==
                          PdMerge(IF is_none THEN df1 ELSE df, df2,
                                  step.from_table \o "_" \o step.from_column,
                                  step.to_table \o "_" \o step.to_column)
                  IN  IF merged.raised # "none" THEN merged
                      ELSE MergeLoop(tabs, merge_sequence, i + 1, FALSE, merged.value)

\* [f"{key}_{val}" for key, val_list in selected.items() for val in val_list]
ColumnsToExtract(selected_columns_by_table) ==
    Flatten([i \in DOMAIN selected_columns_by_table |->
        [k \in DOMAIN selected_columns_by_table[i].columns |->
            selected_columns_by_table[i].table \o "_"
                \o selected_columns_by_table[i].columns[k]]])

\* mutant: the merged frame is returned whole
project_keeps_every_column(df, columns_to_extract) ==
    IF \E k \in DOMAIN columns_to_extract :
           ~SeqContains(df.columns, columns_to_extract[k])
    THEN Raised("KeyError", <<"not in index">>)
    ELSE Returned(df)

\* df[columns_to_extract]
Project(df, columns_to_extract) ==
    IF \E k \in DOMAIN columns_to_extract :
           ~SeqContains(df.columns, columns_to_extract[k])
    THEN Raised("KeyError", <<"not in index">>)
    ELSE Returned(
           [columns |-> columns_to_extract,
            rows |-> [r \in DOMAIN df.rows |->
                         [k \in DOMAIN columns_to_extract |->
                             df.rows[r][IndexOf(df.columns, columns_to_extract[k])]]]])

EmptyFrame == [columns |-> <<>>, rows |-> <<>>]

\* selected_columns_by_table is the dict as the sequence of its items
easy_merge(tabs, cm, tm, selected_columns_by_table, hash_orders) ==
    LET keys == [i \in DOMAIN selected_columns_by_table |->
                    selected_columns_by_table[i].table]
        multi_path == _get_multi_rel_path(tm, keys, hash_orders)
    IN  IF multi_path.raised # "none" THEN multi_path
        ELSE LET merge_sequence == _get_merge_sequence_from_path(cm, multi_path.value)
             IN  IF merge_sequence.raised # "none" THEN merge_sequence
                 ELSE LET merged == MergeLoop(tabs, merge_sequence.value, 1, TRUE,
                                              EmptyFrame)
                      IN  IF merged.raised # "none" THEN merged
                          ELSE IF merged.value.is_none
                          THEN Raised("TypeError",
                                      <<"'NoneType' object is not subscriptable">>)
                          ELSE Project(merged.value.df,
                                       ColumnsToExtract(selected_columns_by_table))

----------------------------------------------------------------------------
(* The stores the model is run on *)

\* every DataFrame with the given columns, 0..MaxRows rows and cells in Values
TablesWith(name, columns) ==
    UNION {{[name |-> name, columns |-> columns, series |-> s] :
               s \in [Range(columns) -> [1..n -> Values]]} : n \in 0..MaxRows}

\* stores around ssr_threshold. customers.customer_id holds 1..20, and
\* orders.customer_id holds 20 distinct values of which 19 (ratio 0.95), resp.
\* 18 (ratio 0.90), are customer ids
ThresholdStores ==
    {<< [name |-> "orders", columns |-> <<"order_id", "customer_id">>,
         series |-> [c \in {"order_id", "customer_id"} |->
                        IF c = "order_id" THEN [i \in 1..20 |-> NaN]
                        ELSE [i \in 1..20 |-> IF i <= miss THEN 20 + i ELSE i]]],
        [name |-> "customers", columns |-> <<"customer_id">>,
         series |-> [c \in {"customer_id"} |-> [i \in 1..20 |-> i]]] >> :
     miss \in {1, 2}}

\* a store whose referencing column has more distinct values than the
\* referenced one: orders.customer_id holds 1..20 and 1 again (21 rows),
\* customers.customer_id holds 1..19 and one NaN
WideForeignStores ==
    {<< [name |-> "orders", columns |-> <<"order_id", "customer_id">>,
         series |-> [c \in {"order_id", "customer_id"} |->
                        IF c = "order_id" THEN [i \in 1..21 |-> NaN]
                        ELSE [i \in 1..21 |-> IF i = 21 THEN 1 ELSE i]]],
        [name |-> "customers", columns |-> <<"customer_id">>,
         series |-> [c \in {"customer_id"} |->
                        [i \in 1..20 |-> IF i = 20 THEN NaN ELSE i]]] >>}

\* the stores of the inference runs: exhaustive over two small tables
InferStores ==
    {<<o, c>> : o \in TablesWith("orders", <<"order_id", "customer_id">>),
                c \in TablesWith("customers", <<"customer_id">>)}
    \cup ThresholdStores \cup WideForeignStores

\* three tables of two rows each, every column drawn from a palette
StoresOver(palette) ==
    {<< [name |-> "orders", columns |-> <<"customer_id">>,
         series |-> [c \in {"customer_id"} |-> oc]],
        [name |-> "customers", columns |-> <<"customer_id", "name">>,
         series |-> [c \in {"customer_id", "name"} |->
                        IF c = "customer_id" THEN cc ELSE cn]],
        [name |-> "cities", columns |-> <<"name">>,
         series |-> [c \in {"name"} |-> tn]] >> :
     oc \in palette, cc \in palette, cn \in palette, tn \in palette}

\* the CSV stores of the path and merge runs
CsvStores ==
    StoresOver({<<NaN, NaN>>, <<1, 1>>, <<2, 2>>, <<1, 2>>, <<1, NaN>>})

\* the tables of the SQL databases of the path and merge runs
SqlStores ==
    StoresOver({<<1, 1>>, <<1, 2>>, <<1, NaN>>})

----------------------------------------------------------------------------
(* SQLStrategy.get_mapping *)

\* the order of ORDER BY on the names that occur
NameRank(n) ==
    CASE n = "cities" -> 1
      [] n = "customer_id" -> 2
      [] n = "customers" -> 3
      [] n = "name" -> 4
      [] n = "order_id" -> 5
      [] n = "orders" -> 6

\* ORDER BY from_table, from_column
SqlOrdered(a, b) ==
    \/ NameRank(a.from_table) < NameRank(b.from_table)
    \/ /\ a.from_table = b.from_table
       /\ NameRank(a.from_column) <= NameRank(b.from_column)

\* the foreign keys a database holding these tables can declare: the
\* referenced column is unique and holds every non-null referencing value
DeclarableFKs(tabs) ==
    LET cols == Range(AllTableColumnPairs(tabs))
    IN  {[from_table |-> f.table, from_column |-> f.column,
          to_table |-> p.table, to_column |-> p.column] :
            <<f, p>> \in {fp \in cols \X cols :
                /\ fp[1] # fp[2]
                /\ is_unique(Series(tabs, fp[2].table, fp[2].column))
                /\ NaN \notin Range(Series(tabs, fp[2].table, fp[2].column))
                /\ DropnaSet(Series(tabs, fp[1].table, fp[1].column))
                      \subseteq DropnaSet(Series(tabs, fp[2].table, fp[2].column))}}

\* the rows of the query: every FOREIGN KEY constraint, UNION ALL the same
\* constraints with the two sides exchanged
SqlRows(fks) ==
    fks \cup {[from_table |-> k.to_table, from_column |-> k.to_column,
               to_table |-> k.from_table, to_column |-> k.from_column] : k \in fks}

\* the results the query can give: its rows in an order that ORDER BY allows
\* (rows with equal from_table and from_column come in any order)
SqlMappings(fks) ==
    {cm \in IterationOrders(SqlRows(fks)) :
        \A i, j \in DOMAIN cm : i < j => SqlOrdered(cm[i], cm[j])}

----------------------------------------------------------------------------
(* Database.__init__ *)

\* no easy_merge is running
NotRunning == [pc |-> "idle"]

\* IssueTracker.__init__: no rows, issue_count = 0
NewTracker == [df |-> <<>>, issue_count |-> 0]

\* self.tables = self.strategy.load_data()
InitLoaded(stores) ==
    /\ strategy = "csv"
    /\ tables \in stores
    /\ columns_mapping = <<>>
    /\ table_mapping = <<>>
    /\ phase = "loaded"
    /\ call = [op |-> "none", args |-> <<>>]
    /\ ret = Returned(None)
    /\ frames = <<>>
    /\ exec = NotRunning
    /\ amendments = 0
    /\ tracker = NewTracker

\* self.columns_mapping = ...; self.table_mapping = ...
Construct ==
    /\ phase = "loaded"
    /\ columns_mapping' = get_mapping(tables)
    /\ table_mapping' = TableMappingOf(columns_mapping')
    /\ phase' = "ready"
    /\ call' = [op |-> "__init__", args |-> <<>>]
    /\ UNCHANGED <<strategy, tables, ret, frames, exec, amendments, tracker>>

\* a Database as __init__ leaves it
InitReady ==
    /\ \/ /\ strategy = "csv"
          /\ tables \in CsvStores
          /\ columns_mapping = get_mapping(tables)
       \/ /\ strategy = "sql"
          /\ tables \in SqlStores
          /\ \E fks \in SUBSET DeclarableFKs(tables) :
                /\ Cardinality(fks) <= MaxFKs
                /\ columns_mapping \in SqlMappings(fks)
    /\ table_mapping = TableMappingOf(columns_mapping)
    /\ phase = "ready"
    /\ call = [op |-> "none", args |-> <<>>]
    /\ ret = Returned(None)
    /\ frames = <<>>
    /\ exec = NotRunning
    /\ amendments = 0
    /\ tracker = NewTracker

----------------------------------------------------------------------------
(* Calls on a constructed Database *)

TableSet == Range(TableNames(tables))

FindPath ==
    /\ phase = "ready"
    /\ call.op = "none"
    /\ \E s \in TableSet, e \in TableSet :
          /\ call' = [op |-> "_get_relationship_path", args |-> <<s, e>>]
          /\ ret' = _get_relationship_path(table_mapping, s, e)
    /\ UNCHANGED <<strategy, tables, columns_mapping, table_mapping, phase,
                   frames, exec, amendments, tracker>>

\* the sequences of 2..MaxReq distinct tables of the store
TableLists ==
    UNION {IterationOrders(S) :
              S \in {T \in SUBSET TableSet :
                        Cardinality(T) >= 2 /\ Cardinality(T) <= MaxReq}}

\* the hash orders of one run: an iteration order for each requested table
\* after the second
HashOrders(list) == [3..Len(list) -> IterationOrders(TableSet)]

MultiRelPath ==
    /\ phase = "ready"
    /\ call.op = "none"
    /\ \E list \in TableLists : \E hash_orders \in HashOrders(list) :
          /\ call' = [op |-> "_get_multi_rel_path", args |-> list]
          /\ ret' = _get_multi_rel_path(table_mapping, list, hash_orders)
    /\ UNCHANGED <<strategy, tables, columns_mapping, table_mapping, phase,
                   frames, exec, amendments, tracker>>

\* the paths handed to the planner: any two or more distinct tables
PathCandidates ==
    UNION {IterationOrders(S) : S \in {T \in SUBSET TableSet : Cardinality(T) >= 2}}

\* the skeletons handed to the planner: [None], one path, or two paths of
\* two tables each
Skeletons ==
    {<<None>>}
    \cup {<<Some(p)>> : p \in PathCandidates}
    \cup {<<Some(p), Some(q)>> :
            p \in {x \in PathCandidates : Len(x) = 2},
            q \in {x \in PathCandidates : Len(x) = 2}}

MergeSequence ==
    /\ phase = "ready"
    /\ call.op = "none"
    /\ \E multi_relationship_path \in Skeletons :
          /\ call' = [op |-> "_get_merge_sequence_from_path",
                      args |-> multi_relationship_path]
          /\ ret' = _get_merge_sequence_from_path(columns_mapping,
                                                  multi_relationship_path)
    /\ UNCHANGED <<strategy, tables, columns_mapping, table_mapping, phase,
                   frames, exec, amendments, tracker>>

\* the lists of columns requested of table t: some of its columns, in any order
ColumnLists(t) ==
    UNION {IterationOrders(S) : S \in (SUBSET Range(ColumnsOf(tables, t))) \ {{}}}

\* the requests: a dict of 2..MaxReq tables, each with a list of its columns
Requests ==
    UNION {{[i \in DOMAIN list |-> [table |-> list[i], columns |-> cols[i]]] :
               cols \in {f \in [DOMAIN list -> UNION {ColumnLists(t) : t \in TableSet}] :
                           \A i \in DOMAIN list : f[i] \in ColumnLists(list[i])}} :
           list \in TableLists}

EasyMerge ==
    /\ phase = "ready"
    /\ call.op = "none"
    /\ \E selected \in Requests :
       \E hash_orders \in HashOrders(selected) :
          /\ call' = [op |-> "easy_merge", args |-> selected]
          /\ ret' = easy_merge(tables, columns_mapping, table_mapping, selected,
                               hash_orders)
    /\ UNCHANGED <<strategy, tables, columns_mapping, table_mapping, phase,
                   frames, exec, amendments, tracker>>

Next == FindPath \/ MultiRelPath \/ MergeSequence \/ EasyMerge

Spec == InitReady /\ [][Next]_vars

InitInfer == InitLoaded(InferStores)

NextInfer == Construct

SpecInfer == InitInfer /\ [][NextInfer]_vars

----------------------------------------------------------------------------
(* Claims about the value-based inference, checked under SpecInfer *)

\* the distinct non-null values of a column of the store
NonNullValues(t, c) == {v \in Range(Series(tables, t, c)) : v # NaN}

\* a column is all-unique: it has as many distinct values (NaN included) as rows
AllUnique(t, c) ==
    Cardinality(Range(Series(tables, t, c))) = Len(Series(tables, t, c))

\* the (table, column) pairs of the store
StoreColumns ==
    UNION {{<<tables[i].name, tables[i].columns[k]>> : k \in DOMAIN tables[i].columns} :
              i \in DOMAIN tables}

\* the relationship from column F to column P with the subset ratio n/d
Relationship(F, P, n, d) ==
    [from_table |-> F[1], from_column |-> F[2], to_table |-> P[1], to_column |-> P[2],
     subset_ratio |-> [num |-> n, den |-> d]]

\* the relationships the inference is to emit: F -> P for every ordered pair of
\* different columns with P all-unique and r = |P n F| / |F| >= 0.95
ExpectedRelationships ==
    {Relationship(FP[1], FP[2],
                  Cardinality(NonNullValues(FP[2][1], FP[2][2])
                                 \cap NonNullValues(FP[1][1], FP[1][2])),
                  Cardinality(NonNullValues(FP[1][1], FP[1][2]))) :
        FP \in {x \in StoreColumns \X StoreColumns :
                  /\ x[1] # x[2]
                  /\ AllUnique(x[2][1], x[2][2])
                  /\ NonNullValues(x[1][1], x[1][2]) # {}
                  /\ 20 * Cardinality(NonNullValues(x[2][1], x[2][2])
                                          \cap NonNullValues(x[1][1], x[1][2]))
                        >= 19 * Cardinality(NonNullValues(x[1][1], x[1][2]))}}

C8_RelationshipInvariant ==
    phase = "ready" =>
        \A i \in DOMAIN columns_mapping :
            LET r == columns_mapping[i]
            IN  /\ <<r.from_table, r.from_column>> # <<r.to_table, r.to_column>>
                /\ r.subset_ratio.den > 0
                /\ 0 <= r.subset_ratio.num
                /\ r.subset_ratio.num <= r.subset_ratio.den
                /\ AllUnique(r.to_table, r.to_column)

\* C8 witness: an emitted relationship whose from-side column is not unique and
\* has more distinct values than its to-side column
C8_Witness ==
    /\ phase = "ready"
    /\ call.op = "__init__"
    /\ \E i \in DOMAIN columns_mapping :
          LET r == columns_mapping[i]
          IN  /\ ~AllUnique(r.from_table, r.from_column)
              /\ Cardinality(NonNullValues(r.from_table, r.from_column))
                    > Cardinality(NonNullValues(r.to_table, r.to_column))

----------------------------------------------------------------------------
(* Claims about the path resolver and the planner, checked under Spec *)

\* the edges of the relationship graph
EdgeSet ==
    {e \in TableSet \X TableSet :
        e[1] \in DOMAIN table_mapping /\ SeqContains(table_mapping[e[1]], e[2])}

\* the simple directed paths of the graph from s to e, for s # e
SimplePathsBetween(s, e) ==
    {p \in PathCandidates :
        /\ p[1] = s
        /\ p[Len(p)] = e
        /\ \A i \in 1..(Len(p) - 1) : <<p[i], p[i + 1]>> \in EdgeSet}

\* p is a simple path from s to e with the fewest edges
IsShortestSimplePath(p, s, e) ==
    /\ p \in SimplePathsBetween(s, e)
    /\ \A q \in SimplePathsBetween(s, e) : Len(p) <= Len(q)

\* C1: for distinct tables start, end joined by a directed path, findPath
\* returns a path from start to end along edges of the graph that repeats no
\* table and has the fewest edges of all simple paths from start to end.
C1_FindPathShortest ==
    (/\ call.op = "_get_relationship_path"
     /\ call.args[1] # call.args[2]
     /\ SimplePathsBetween(call.args[1], call.args[2]) # {})
    => /\ ret.raised = "none"
       /\ ~ret.value.none
       /\ IsShortestSimplePath(ret.value.path, call.args[1], call.args[2])

\* C2: for distinct tables start, end with no directed simple path from start
\* to end, findPath returns None and does not raise.
C2_NotFoundReturnsNone ==
    (/\ call.op = "_get_relationship_path"
     /\ call.args[1] # call.args[2]
     /\ SimplePathsBetween(call.args[1], call.args[2]) = {})
    => /\ ret.raised = "none"
       /\ ret.value.none

\* C3: findPath(X, X) returns the single-table path [X].
C3_TrivialPath ==
    (/\ call.op = "_get_relationship_path"
     /\ call.args[1] = call.args[2])
    => /\ ret.raised = "none"
       /\ ~ret.value.none
       /\ ret.value.path = <<call.args[1]>>

\* C4: in findMultiPath over three tables, when the third table is not on the
\* first sub-path and at least one table of the first sub-path has a path to
\* it, the second sub-path of the plan runs from a table of the first sub-path
\* to the third table and has the fewest edges of all such paths.
C4_NextSubPathShortest ==
    (/\ call.op = "_get_multi_rel_path"
     /\ Len(call.args) = 3)
    => LET first == _get_relationship_path(table_mapping, call.args[1], call.args[2])
           table == call.args[3]
           covered == Range(first.value.path)
           reaching == UNION {SimplePathsBetween(c, table) : c \in covered}
       IN  (/\ first.raised = "none"
            /\ ~first.value.none
            /\ table \notin covered
            /\ reaching # {})
           => /\ ret.raised = "none"
              /\ Len(ret.value) = 2
              /\ ret.value[2].path \in reaching
              /\ \A q \in reaching : Len(ret.value[2].path) <= Len(q)

\* the consecutive (left, right) pairs of a skeleton, in sub-path order
SkeletonPairs(multi_relationship_path) ==
    Flatten([i \in DOMAIN multi_relationship_path |->
        [k \in 1..(Len(multi_relationship_path[i].path) - 1) |->
            <<multi_relationship_path[i].path[k],
              multi_relationship_path[i].path[k + 1]>>]])

\* the entries of the Relationship Set from table left to table right
EntriesBetween(left, right) ==
    {i \in DOMAIN columns_mapping :
        /\ columns_mapping[i].from_table = left
        /\ columns_mapping[i].to_table = right}

\* every sub-path is a path and every consecutive pair has exactly one entry
UniquelyMapped(multi_relationship_path) ==
    /\ \A i \in DOMAIN multi_relationship_path : ~multi_relationship_path[i].none
    /\ \A k \in DOMAIN SkeletonPairs(multi_relationship_path) :
          LET pair == SkeletonPairs(multi_relationship_path)[k]
          IN  Cardinality(EntriesBetween(pair[1], pair[2])) = 1

\* C5: planning a skeleton succeeds exactly when every consecutive pair of
\* every sub-path has exactly one Relationship Set entry; the Join Plan then
\* lists those entries in sub-path order, and in every other case the call
\* raises.
C5_PlanExactlyOneEntry ==
    call.op = "_get_merge_sequence_from_path" =>
        LET pairs == SkeletonPairs(call.args)
        IN  /\ UniquelyMapped(call.args) <=> ret.raised = "none"
            /\ UniquelyMapped(call.args) =>
                  /\ Len(ret.value) = Len(pairs)
                  /\ \A k \in DOMAIN pairs :
                        /\ ret.value[k] \in Range(columns_mapping)
                        /\ ret.value[k].from_table = pairs[k][1]
                        /\ ret.value[k].to_table = pairs[k][2]

\* C5 witness: a skeleton of two sub-paths has been planned into two steps
C5_Witness ==
    /\ call.op = "_get_merge_sequence_from_path"
    /\ Len(call.args) = 2
    /\ ret.raised = "none"
    /\ Len(ret.value) = 2

\* C6: when an ordered table pair of the skeleton has more than one
\* Relationship Set entry, planning fails with an error that differs from the
\* error raised for a pair that has no entry.
C6_AmbiguousDistinguishable ==
    (/\ call.op = "_get_merge_sequence_from_path"
     /\ Len(call.args) = 1
     /\ ~call.args[1].none
     /\ Len(call.args[1].path) = 2
     /\ Cardinality(EntriesBetween(call.args[1].path[1], call.args[1].path[2])) > 1)
    => /\ ret.raised # "none"
       /\ <<ret.raised, ret.msg>> #
             <<"Exception",
               <<"No mapping found between " \o call.args[1].path[1]
                   \o " and " \o call.args[1].path[2]>>>>

----------------------------------------------------------------------------
(* Claims about easy_merge, checked under Spec *)

\* the tables a request names, in the order of the dict
RequestedTables(selected) == [i \in DOMAIN selected |-> selected[i].table]

\* the outcomes of resolving and planning a request, over the iteration
\* orders a run can have
PlanOutcomes(selected) ==
    {LET multi_path == _get_multi_rel_path(table_mapping, RequestedTables(selected), ho)
     IN  IF multi_path.raised # "none" THEN Raised(multi_path.raised, multi_path.msg)
         ELSE _get_merge_sequence_from_path(columns_mapping, multi_path.value) :
        ho \in HashOrders(selected)}

\* the cell of row r of column c of table t
Cell(t, c, r) == Series(tables, t, c)[r]

\* the tables a Join Plan joins: the first left table, then every right table
JoinedTables(plan) ==
    <<plan[1].from_table>> \o [i \in DOMAIN plan |-> plan[i].to_table]

\* where table t stands in the accumulated result
Position(plan, t) ==
    CHOOSE k \in DOMAIN JoinedTables(plan) :
        /\ JoinedTables(plan)[k] = t
        /\ \A j \in 1..(k - 1) : JoinedTables(plan)[j] # t

\* the naive nested-loop join of a Join Plan: the choices of one row per
\* joined table that satisfy the key equality of every step
JoinedRowChoices(plan) ==
    LET joined == JoinedTables(plan)
        most == CHOOSE n \in 0..30 :
                    /\ \A k \in DOMAIN joined : NumRows(tables[Tab(tables, joined[k])]) <= n
                    /\ \E k \in DOMAIN joined : NumRows(tables[Tab(tables, joined[k])]) = n
    IN  {f \in [DOMAIN joined -> 1..most] :
            /\ \A k \in DOMAIN joined : f[k] <= NumRows(tables[Tab(tables, joined[k])])
            /\ \A i \in DOMAIN plan :
                  Cell(plan[i].from_table, plan[i].from_column,
                       f[Position(plan, plan[i].from_table)])
                    = Cell(plan[i].to_table, plan[i].to_column, f[i + 1])}

\* the requested (table, column) pairs, in the order requested
RequestedColumns(selected) ==
    Flatten([i \in DOMAIN selected |->
        [k \in DOMAIN selected[i].columns |->
            <<selected[i].table, selected[i].columns[k]>>]])

\* a choice of rows projected to the requested columns
ProjectedRow(plan, selected, f) ==
    [k \in DOMAIN RequestedColumns(selected) |->
        Cell(RequestedColumns(selected)[k][1], RequestedColumns(selected)[k][2],
             f[Position(plan, RequestedColumns(selected)[k][1])])]

\* rows is, as a multiset, the nested-loop join of the plan projected to the
\* requested columns
IsNestedLoopJoin(rows, plan, selected) ==
    LET choices == JoinedRowChoices(plan)
    IN  /\ Len(rows) = Cardinality(choices)
        /\ \A v \in Range(rows) \cup {ProjectedRow(plan, selected, f) : f \in choices} :
              Cardinality({r \in DOMAIN rows : rows[r] = v})
                = Cardinality({f \in choices : ProjectedRow(plan, selected, f) = v})

Unreachable(t) == \A s \in TableSet \ {t} : SimplePathsBetween(s, t) = {}

\* C10: easy_merge fails with a NoPathFound error whenever a requested table
\* cannot be reached from the tables already covered; in particular for the
\* request orders, customers, cities when the only relationship is the one
\* between orders.customer_id and customers.customer_id.
C10_UnreachableIsNoPathFound ==
    call.op = "easy_merge" =>
        LET list == RequestedTables(call.args)
        IN  /\ (\E k \in 2..Len(list) : Unreachable(list[k]))
                  => ret.raised = "NoPathFound"
            /\ (/\ list = <<"orders", "customers", "cities">>
                 /\ <<"orders", "customers">> \in EdgeSet
                 /\ EdgeSet \subseteq {<<"orders", "customers">>, <<"customers", "orders">>})
                  => ret.raised = "NoPathFound"

----------------------------------------------------------------------------
(* Database._get_relationship_path, one step of the interpreter at a time.  *)
(* A frame holds the arguments and locals of one active call:               *)
(*   [starting_table, paths, i, all_paths], i the position of the for loop  *)
(* in self.table_mapping[starting_table]; the last frame is the running one *)
(* and ending_table is call.args[2].                                        *)

\* mutant: the search goes to every neighbour
visits_every_neighbour(paths, next_table) == TRUE

\* elif next_table not in paths
MayVisit(paths, next_table) == ~SeqContains(paths, next_table)

\* a frame at the start of its call
Frame(starting_table, paths) ==
    [starting_table |-> starting_table, paths |-> paths, i |-> 1, all_paths |-> <<>>]

\* the running frame
Top == frames[Len(frames)]

\* frames with its running frame replaced by f
WithTop(f) == [frames EXCEPT ![Len(frames)] = f]

\* the call _get_relationship_path(s, e) is made (paths is None)
SearchCall ==
    /\ phase = "ready"
    /\ call.op = "none"
    /\ frames = <<>>
    /\ \E s \in TableSet, e \in TableSet :
          /\ call' = [op |-> "_get_relationship_path", args |-> <<s, e>>]
          /\ frames' = <<Frame(s, <<s>>)>>
    /\ UNCHANGED <<strategy, tables, columns_mapping, table_mapping, phase, ret,
                   exec, amendments, tracker>>

\* self.table_mapping[starting_table] raises KeyError, which no caller catches
SearchRaise ==
    /\ frames # <<>>
    /\ Top.starting_table \notin DOMAIN table_mapping
    /\ ret' = Raised("KeyError", <<Top.starting_table>>)
    /\ frames' = <<>>
    /\ UNCHANGED <<strategy, tables, columns_mapping, table_mapping, phase, call,
                   exec, amendments, tracker>>

\* one iteration of the for loop of the running call
SearchStep ==
    /\ frames # <<>>
    /\ Top.starting_table \in DOMAIN table_mapping
    /\ Top.i <= Len(table_mapping[Top.starting_table])
    /\ LET next_table == table_mapping[Top.starting_table][Top.i]
           ending_table == call.args[2]
       IN  frames' =
             IF next_table = ending_table
             THEN WithTop([Top EXCEPT !.i = @ + 1,
                                      !.all_paths = Append(@, Append(Top.paths, next_table))])
             ELSE IF MayVisit(Top.paths, next_table)
             THEN Append(frames, Frame(next_table, Append(Top.paths, next_table)))
             ELSE WithTop([Top EXCEPT !.i = @ + 1])
    /\ UNCHANGED <<strategy, tables, columns_mapping, table_mapping, phase, call, ret,
                   exec, amendments, tracker>>

\* the for loop of the running call is over: the top level returns None or
\* the shortest path, a recursive call returns all_paths to all_paths.extend
SearchReturn ==
    /\ frames # <<>>
    /\ Top.starting_table \in DOMAIN table_mapping
    /\ Top.i > Len(table_mapping[Top.starting_table])
    /\ IF Top.paths = <<Top.starting_table>>
       THEN /\ ret' = IF Top.all_paths = <<>> THEN Returned(None)
                      ELSE Returned(Some(MinByLen(Top.all_paths)))
            /\ frames' = <<>>
       ELSE LET caller == frames[Len(frames) - 1]
            IN  /\ frames' = [SubSeq(frames, 1, Len(frames) - 1)
                                EXCEPT ![Len(frames) - 1] =
                                    [caller EXCEPT !.i = @ + 1,
                                                   !.all_paths = @ \o Top.all_paths]]
                /\ ret' = ret
    /\ UNCHANGED <<strategy, tables, columns_mapping, table_mapping, phase, call,
                   exec, amendments, tracker>>

NextSearch == SearchCall \/ SearchRaise \/ SearchStep \/ SearchReturn

\* a call that was made keeps running: the interpreter takes the next step
SpecSearch ==
    InitReady /\ [][NextSearch]_vars
              /\ WF_vars(SearchRaise \/ SearchStep \/ SearchReturn)

----------------------------------------------------------------------------
(* Claims about the running path search, checked under SpecSearch *)

\* the tables of the relationship graph
GraphTables == DOMAIN table_mapping \cup {e[2] : e \in EdgeSet}

\* no table occurs twice in p
NoRepeat(p) == \A i, j \in DOMAIN p : p[i] = p[j] => i = j

\* C11: findPath terminates on every relationship graph, cycles and
\* self-loops included: the path carried by each active call repeats no
\* table, the number of active calls never exceeds the number of distinct
\* tables, and every call that was made comes to its end.
C11_FindPathTerminates ==
    /\ [](\A k \in DOMAIN frames :
              /\ NoRepeat(frames[k].paths)
              /\ Len(frames[k].paths) = k)
    /\ [](frames # <<>> =>
              Len(frames) <= Cardinality(GraphTables \cup {call.args[1]}))
    /\ [](frames # <<>> => <>(frames = <<>>))

\* a search three calls deep on a graph with a cycle
C11_Witness ==
    /\ Len(frames) = 3
    /\ frames[3].starting_table \in DOMAIN table_mapping
    /\ \E k \in DOMAIN table_mapping[frames[3].starting_table] :
          table_mapping[frames[3].starting_table][k] = frames[1].starting_table

----------------------------------------------------------------------------
(* Claims about _get_multi_rel_path, checked under Spec *)

\* the graph over the requested tables A, B, C has the edges A->B, B->A,
\* B->C and C->B and no other edge
ChainGraph(A, B, C) == EdgeSet = {<<A, B>>, <<B, A>>, <<B, C>>, <<C, B>>}

\* C12: for requested tables [A, B, C] over a graph whose only edges are
\* A->B, B->A, B->C and C->B, findMultiPath returns exactly the sub-paths
\* [A, B] and [B, C], in that order, and so no sub-path from A to C.
C12_ChainOfThree ==
    (/\ call.op = "_get_multi_rel_path"
     /\ Len(call.args) = 3
     /\ ChainGraph(call.args[1], call.args[2], call.args[3]))
    => /\ ret.raised = "none"
       /\ ret.value = <<Some(<<call.args[1], call.args[2]>>),
                        Some(<<call.args[2], call.args[3]>>)>>

\* findMultiPath has returned for [A, B, C] over the chain graph
C12_Witness ==
    /\ call.op = "_get_multi_rel_path"
    /\ Len(call.args) = 3
    /\ ChainGraph(call.args[1], call.args[2], call.args[3])
    /\ ret.raised = "none"

\* the call returned a plan: a list of sub-paths, none of them None
PlanReturned ==
    /\ call.op = "_get_multi_rel_path"
    /\ ret.raised = "none"
    /\ \A k \in DOMAIN ret.value : ~ret.value[k].none

\* C13: findMultiPath adds no sub-path for a requested table that already
\* occurs in an earlier sub-path: every sub-path after the first ends at a
\* table no earlier sub-path holds. A returned plan has at most (number of
\* requested tables - 1) sub-paths, and every requested table occurs in one.
C13_CoveredTablesSkipped ==
    PlanReturned =>
        /\ \A k \in 2..Len(ret.value) :
              ret.value[k].path[Len(ret.value[k].path)]
                  \notin DistinctTables(SubSeq(ret.value, 1, k - 1))
        /\ Len(ret.value) <= Len(call.args) - 1
        /\ Range(call.args) \subseteq DistinctTables(ret.value)

\* a plan of one sub-path was returned for three tables: the third was covered
C13_Witness ==
    /\ PlanReturned
    /\ Len(call.args) = 3
    /\ Len(ret.value) = 1

----------------------------------------------------------------------------
(* Claims about the result of easy_merge, checked under Spec *)

\* C14: a successful easy_merge returns a table whose columns are exactly the
\* names "<table>_<column>" of the requested (table, column) pairs, in the
\* order requested; columns of tables a path only traverses and unrequested
\* columns of requested tables do not appear.
C14_ResultColumnsAsRequested ==
    (call.op = "easy_merge" /\ ret.raised = "none") =>
        /\ ret.value.columns =
              [k \in DOMAIN RequestedColumns(call.args) |->
                  RequestedColumns(call.args)[k][1] \o "_"
                      \o RequestedColumns(call.args)[k][2]]
        /\ \A r \in DOMAIN ret.value.rows :
              Len(ret.value.rows[r]) = Len(RequestedColumns(call.args))

\* a merge of two requested tables through a third succeeded and returned
\* rows, with a column of a requested table left out of the request
C14_Witness ==
    /\ call.op = "easy_merge"
    /\ ret.raised = "none"
    /\ ret.value.rows # <<>>
    /\ Len(call.args) = 2
    /\ \E o \in PlanOutcomes(call.args) : o.raised = "none" /\ Len(o.value) = 2
    /\ \E i \in DOMAIN call.args :
          Len(call.args[i].columns) < Len(ColumnsOf(tables, call.args[i].table))

----------------------------------------------------------------------------
(* Database.easy_merge, one statement at a time. exec holds its locals:     *)
(*   pc             "resolve" (line 509), "plan" (line 510), "merge" (lines *)
(*                  512-535), then "done" or "raised"                       *)
(*   multi_path     what line 509 gave, merge_sequence what line 510 gave   *)
(*   i, is_none, df the position of the for loop, and df                    *)
(*   joins          the calls of pd.merge made                              *)
(*   out            the lines printed                                       *)

\* a result not computed yet
Pending == [raised |-> "pending", msg |-> <<>>, value |-> <<>>]

\* mutant: the column labels are assigned to the tables of the store
store_prefixed_in_place(tabs, from_table, to_table) ==
    [n \in DOMAIN tabs |->
        IF tabs[n].name \in {from_table, to_table}
        THEN [name |-> tabs[n].name,
              columns |-> [k \in DOMAIN tabs[n].columns |->
                              tabs[n].name \o "_" \o tabs[n].columns[k]],
              series |-> [c \in {tabs[n].name \o "_" \o tabs[n].columns[k] :
                                    k \in DOMAIN tabs[n].columns} |->
                             tabs[n].series[
                                 tabs[n].columns[
                                     CHOOSE k \in DOMAIN tabs[n].columns :
                                         tabs[n].name \o "_" \o tabs[n].columns[k] = c]]]]
        ELSE tabs[n]]

\* the store after lines 514-517: df1 and df2 are copies, so the labels
\* assigned to them leave the tables of the store as they were
StoreAfterPrefixing(tabs, from_table, to_table) == tabs

\* df.shape
Shape(df) == <<Len(df.rows), Len(df.columns)>>

\* the labels a prefixed copy can carry
PrefixedLabels(tabs) ==
    UNION {{tabs[n].name \o "_" \o tabs[n].columns[k] :
               k \in DOMAIN tabs[n].columns} : n \in DOMAIN tabs}

\* any(["_x" in c for c in df.columns]) & any(["_y" in c for c in df.columns])
MergedSecondTime(tabs, df) ==
    /\ \E k \in DOMAIN df.columns :
          df.columns[k] \in {l \o "_x" : l \in PrefixedLabels(tabs)}
    /\ \E k \in DOMAIN df.columns :
          df.columns[k] \in {l \o "_y" : l \in PrefixedLabels(tabs)}

\* the call easy_merge(selected_columns_by_table) is made
MergeCall ==
    /\ phase = "ready"
    /\ call.op = "none"
    /\ exec.pc = "idle"
    /\ \E selected \in Requests :
          call' = [op |-> "easy_merge", args |-> selected]
    /\ exec' = [pc |-> "resolve", multi_path |-> Pending, merge_sequence |-> Pending,
                i |-> 1, is_none |-> TRUE, df |-> EmptyFrame, joins |-> 0,
                out |-> <<>>]
    /\ UNCHANGED <<strategy, tables, columns_mapping, table_mapping, phase, ret,
                   frames, amendments, tracker>>

\* multi_path = self._get_multi_rel_path(list(selected_columns_by_table.keys()))
MergeResolve ==
    /\ exec.pc = "resolve"
    /\ \E hash_orders \in HashOrders(call.args) :
          LET keys == [i \in DOMAIN call.args |-> call.args[i].table]
              multi_path == _get_multi_rel_path(table_mapping, keys, hash_orders)
          IN  IF multi_path.raised # "none"
              THEN /\ exec' = [exec EXCEPT !.pc = "raised", !.multi_path = multi_path]
                   /\ ret' = multi_path
              ELSE /\ exec' = [exec EXCEPT !.pc = "plan", !.multi_path = multi_path]
                   /\ ret' = ret
    /\ UNCHANGED <<strategy, tables, columns_mapping, table_mapping, phase, call,
                   frames, amendments, tracker>>

\* mutant: a planning error is kept for later and the steps planned so far
\* are none, so the loop starts
merge_plan_swallowing_errors ==
    /\ exec.pc = "plan"
    /\ exec' = [exec EXCEPT
                  !.pc = "merge",
                  !.merge_sequence =
                      LET r == _get_merge_sequence_from_path(columns_mapping,
                                                             exec.multi_path.value)
                      IN  IF r.raised # "none"
                          THEN [raised |-> r.raised, msg |-> r.msg, value |-> <<>>]
                          ELSE r]
    /\ UNCHANGED <<strategy, tables, columns_mapping, table_mapping, phase, call, ret,
                   frames, amendments, tracker>>

\* merge_sequence = self._get_merge_sequence_from_path(multi_path)
MergePlan ==
    /\ exec.pc = "plan"
    /\ LET merge_sequence ==
               _get_merge_sequence_from_path(columns_mapping, exec.multi_path.value)
       IN  IF merge_sequence.raised # "none"
           THEN /\ exec' = [exec EXCEPT !.pc = "raised",
                                        !.merge_sequence = merge_sequence]
                /\ ret' = merge_sequence
           ELSE /\ exec' = [exec EXCEPT !.pc = "merge",
                                        !.merge_sequence = merge_sequence]
                /\ ret' = ret
    /\ UNCHANGED <<strategy, tables, columns_mapping, table_mapping, phase, call,
                   frames, amendments, tracker>>

\* one iteration of the for loop over merge_sequence (lines 513-531)
MergeJoin ==
    /\ exec.pc = "merge"
    /\ exec.i <= Len(exec.merge_sequence.value)
    /\ LET step == exec.merge_sequence.value[exec.i]
       IN  IF Cardinality(DOMAIN step) # 4
           THEN /\ ret' = Raised("ValueError",
                                 <<"too many values to unpack (expected 4)">>)
                /\ exec' = [exec EXCEPT !.pc = "raised"]
                /\ tables' = tables
           ELSE LET df1 == PrefixedCopy(tables, step.from_table)
                    df2 == PrefixedCopy(tables, step.to_table)
                    merged == PdMerge(IF exec.is_none THEN df1 ELSE exec.df, df2,
                                      step.from_table \o "_" \o step.from_column,
                                      step.to_table \o "_" \o step.to_column)
                    shapes == IF exec.is_none
                              THEN <<<<"shape", step.from_table, Shape(df1)>>>>
                              ELSE <<>>
                IN  /\ tables' = StoreAfterPrefixing(tables, step.from_table,
                                                     step.to_table)
                    /\ IF merged.raised # "none"
                       THEN /\ ret' = merged
                            /\ exec' = [exec EXCEPT !.pc = "raised",
                                                    !.joins = @ + 1,
                                                    !.out = @ \o shapes]
                       ELSE /\ ret' = ret
                            /\ exec' =
                                 [exec EXCEPT
                                    !.i = @ + 1,
                                    !.is_none = FALSE,
                                    !.df = merged.value,
                                    !.joins = @ + 1,
                                    !.out = @ \o shapes
                                        \o <<<<"merged", step.to_table, Shape(df2),
                                               Shape(merged.value)>>>>
                                        \o IF MergedSecondTime(tables, merged.value)
                                           THEN <<<<"PROBLEM. TABLE PAIR MERGED 2nd TIME">>>>
                                           ELSE <<>>]
    /\ UNCHANGED <<strategy, columns_mapping, table_mapping, phase, call,
                   frames, amendments, tracker>>

\* return df[columns_to_extract] (lines 533-535)
MergeProject ==
    /\ exec.pc = "merge"
    /\ exec.i > Len(exec.merge_sequence.value)
    /\ ret' = IF exec.is_none
              THEN Raised("TypeError", <<"'NoneType' object is not subscriptable">>)
              ELSE Project(exec.df, ColumnsToExtract(call.args))
    /\ exec' = [exec EXCEPT !.pc = IF ret'.raised = "none" THEN "done" ELSE "raised"]
    /\ UNCHANGED <<strategy, tables, columns_mapping, table_mapping, phase, call,
                   frames, amendments, tracker>>

NextMerge == MergeCall \/ MergeResolve \/ MergePlan \/ MergeJoin \/ MergeProject

SpecMerge == InitReady /\ [][NextMerge]_vars

----------------------------------------------------------------------------
(* Claims about the running easy_merge, checked under SpecMerge *)

\* line 509 or line 510 raised
PlanningFailed ==
    /\ exec.pc # "idle"
    /\ \/ exec.multi_path.raised \notin {"pending", "none"}
       \/ exec.merge_sequence.raised \notin {"pending", "none"}

\* C15: an error detected while resolving paths or planning aborts easy_merge
\* before any join is executed: no join step runs unless the whole Join Plan
\* has been resolved, and a failing call returns no result table.
C15_ErrorsAbortBeforeJoin ==
    /\ (exec.pc # "idle" /\ (exec.joins > 0 \/ exec.pc \in {"merge", "done"}))
          => /\ exec.multi_path.raised = "none"
             /\ exec.merge_sequence.raised = "none"
    /\ PlanningFailed
          => /\ exec.pc = "raised"
             /\ exec.joins = 0
             /\ exec.is_none
             /\ ret.raised \in {exec.multi_path.raised, exec.merge_sequence.raised}
    /\ exec.pc = "raised" => (ret.raised # "none" /\ ret.value = <<>>)

\* planning a resolved multi-path has failed
C15_Witness ==
    /\ exec.pc = "raised"
    /\ exec.multi_path.raised = "none"
    /\ exec.merge_sequence.raised = "Exception"

\* C16: easy_merge, whether it succeeds or fails, leaves every table of the
\* Table Store (its rows and its column names), the Relationship Set and the
\* Relationship Graph unchanged: no step of a running easy_merge changes them.
C16_MergeLeavesStoreUnchanged ==
    [][exec'.pc # "idle" =>
          /\ tables' = tables
          /\ columns_mapping' = columns_mapping
          /\ table_mapping' = table_mapping]_vars

\* an easy_merge of two joins has returned its result
C16_Witness ==
    /\ exec.pc = "done"
    /\ exec.joins = 2
    /\ ret.raised = "none"

----------------------------------------------------------------------------
(* Claims about a store without keys, checked under Spec *)

\* the store was read by CSVStrategy and none of its columns is all-unique
NoCandidateKey ==
    /\ strategy = "csv"
    /\ \A tc \in StoreColumns : ~AllUnique(tc[1], tc[2])

\* C17: if no column of any table of the store is all-unique, value-based
\* inference yields an empty Relationship Set, and every findPath (between
\* two different tables) or easy_merge request then fails with NoPathFound:
\* findPath reports not-found, easy_merge raises the NoPathFound error.
C17_NoKeysNoPaths ==
    NoCandidateKey =>
        /\ columns_mapping = <<>>
        /\ (call.op = "_get_relationship_path" /\ call.args[1] # call.args[2])
              => \/ ret.raised = "NoPathFound"
                 \/ ret.raised = "none" /\ ret.value.none
        /\ call.op = "easy_merge" => ret.raised = "NoPathFound"

----------------------------------------------------------------------------
(* A correction of the Relationship Set. Database has no method for it:     *)
(* columns_mapping and table_mapping are plain attributes, set once by      *)
(* __init__, and a caller corrects the set by assigning to columns_mapping. *)

\* the row a caller adds for the relationship from column f to column p
CorrectionRow(f, p) ==
    IF strategy = "csv"
    THEN [from_table |-> f.table, from_column |-> f.column,
          to_table |-> p.table, to_column |-> p.column,
          subset_ratio |-> _compute_subset_ratio(Series(tables, p.table, p.column),
                                                  Series(tables, f.table, f.column))]
    ELSE [from_table |-> f.table, from_column |-> f.column,
          to_table |-> p.table, to_column |-> p.column]

\* columns_mapping with one row removed, or with one row added for two
\* columns of different tables that had none
Corrections(cm) ==
    {[k \in 1..(Len(cm) - 1) |-> IF k < i THEN cm[k] ELSE cm[k + 1]] : i \in DOMAIN cm}
    \cup {Append(cm, CorrectionRow(fp[1], fp[2])) :
            fp \in {x \in Range(AllTableColumnPairs(tables))
                              \X Range(AllTableColumnPairs(tables)) :
                       /\ x[1].table # x[2].table
                       /\ \A i \in DOMAIN cm :
                             ~(/\ cm[i].from_table = x[1].table
                               /\ cm[i].from_column = x[1].column
                               /\ cm[i].to_table = x[2].table
                               /\ cm[i].to_column = x[2].column)}}

\* db.columns_mapping = <the corrected set>: nothing recomputes table_mapping
AmendMapping ==
    /\ phase = "ready"
    /\ call.op = "none"
    /\ amendments < MaxAmend
    /\ columns_mapping' \in Corrections(columns_mapping)
    /\ amendments' = amendments + 1
    /\ UNCHANGED <<strategy, tables, table_mapping, phase, call, ret, frames, exec,
                   tracker>>

NextAmend == AmendMapping \/ FindPath

SpecAmend == InitReady /\ [][NextAmend]_vars

----------------------------------------------------------------------------
(* Claims about the Relationship Graph, checked under SpecAmend *)

\* the number of Relationship Set entries from table a to table b
EntriesFromTo(a, b) ==
    Cardinality({i \in DOMAIN columns_mapping :
                    columns_mapping[i].from_table = a /\ columns_mapping[i].to_table = b})

\* C18: in every reachable state, also after the Relationship Set has been
\* amended by a correction that adds or removes a relationship, the
\* Relationship Graph used by findPath is the adjacency derived from the
\* current Relationship Set: a table has the neighbour b once for every
\* entry from it to b, and no other neighbour.
C18_GraphFollowsRelationshipSet ==
    \A a \in TableSet, b \in TableSet :
        EntriesFromTo(a, b) =
            IF a \in DOMAIN table_mapping
            THEN Cardinality({k \in DOMAIN table_mapping[a] : table_mapping[a][k] = b})
            ELSE 0

----------------------------------------------------------------------------
(* Claims about row fan-out, checked under SpecMerge *)

\* the "MERGED shape" lines printed so far, one per join step
MergedLines == SelectSeq(exec.out, LAMBDA e : e[1] = "merged")

\* the rows of the left side before join step k
RowsBefore(k) ==
    IF k = 1
    THEN SelectSeq(exec.out, LAMBDA e : e[1] = "shape")[1][3][1]
    ELSE MergedLines[k - 1][4][1]

\* the join key of step k holds a value twice in the table being joined
RightKeyRepeats(k) ==
    LET step == exec.merge_sequence.value[k]
        key == Series(tables, step.to_table, step.to_column)
    IN  \E i, j \in DOMAIN key : i # j /\ key[i] = key[j]

\* join step k multiplied rows: its key is not unique in the table being
\* joined and the result has more rows than the left side had
FanOut(k) == RightKeyRepeats(k) /\ MergedLines[k][4][1] > RowsBefore(k)

\* C19: when a join step of easy_merge multiplies rows because the join key
\* is not unique on the side being joined, the executor surfaces a fan-out
\* diagnostic (something besides the shape lines it prints for every step)
\* or fails, instead of silently returning the inflated result.
C19_FanOutSurfaced ==
    (/\ exec.pc = "done"
     /\ \E k \in DOMAIN MergedLines : FanOut(k))
    => \E n \in DOMAIN exec.out : exec.out[n][1] \notin {"shape", "merged"}

----------------------------------------------------------------------------
(* Database.get_info: the classification of the columns.                    *)
(* A table classified here carries dtypes, the dtype of each column. Cells  *)
(* are numbers that stand for values of the dtype: 1..49 whole numbers,     *)
(* 51..99 numbers with a fraction, 101..199 strings, 201.. datetimes (date  *)
(* part and time part below) and timedeltas; NaN, None and NaT are NaN.     *)

\* unique_count > 10
TextMinDistinct == 10

\* series.nunique(): the distinct values, NaN left out
nunique(s) == Cardinality(DropnaSet(s))

\* the keywords tested with "kw in name" that occur in a column name (in its
\* lower case for the spatial keywords; "_id" is tested as written)
KeywordsIn(name) ==
    CASE name = "customer_id" -> {"_id"}
      [] name = "city_id" -> {"_id", "city"}
      [] name = "City" -> {"city"}
      [] name = "lat" -> {"lat"}
      [] name = "latitude" -> {"lat", "latitude"}
      [] OTHER -> {}

CoordinateKeywords ==
    {"latitude", "longitude", "lat", "long", "lng", "geo", "coordinates"}

RegionKeywords ==
    {"address", "city", "state", "zipcode", "zip_code", "postcode", "country",
     "region", "district", "location"}

\* pd.api.types.is_datetime64_any_dtype, is_numeric_dtype, is_integer_dtype,
\* is_float_dtype, is_object_dtype
is_datetime64_any_dtype(dtype) == dtype = "datetime64[ns]"
is_numeric_dtype(dtype) == dtype \in {"int64", "float64"}
is_integer_dtype(dtype) == dtype = "int64"
is_float_dtype(dtype) == dtype = "float64"
is_object_dtype(dtype) == dtype = "object"

\* series.dt.date and series.dt.time of a datetime cell
DatePart(v) == (v - 200) \div 4
TimePart(v) == (v - 200) % 4

\* series.dropna().apply(float.is_integer).all()
AllWhole(s) == \A v \in DropnaSet(s) : v < 50

\* lines 318-325: the subtype of a temporal column
TemporalSubtype(s) ==
    IF Cardinality({TimePart(v) : v \in DropnaSet(s)}) = 1 THEN "date"
    ELSE IF Cardinality({DatePart(v) : v \in DropnaSet(s)}) = 1 THEN "time"
    ELSE "datetime"

\* lines 341-349: the subtype of a numeric column
NumericSubtype(dtype, s) ==
    IF is_integer_dtype(dtype) \/ (is_float_dtype(dtype) /\ AllWhole(s)) THEN "discrete"
    ELSE IF is_float_dtype(dtype) THEN "continuous"
    ELSE "unknown"

\* mutant: ten distinct values already make a column free text
is_text_from_ten(dtype, unique_count) ==
    is_object_dtype(dtype) /\ unique_count >= TextMinDistinct

\* pd.api.types.is_object_dtype(series) and unique_count > 10
IsText(dtype, unique_count) ==
    is_object_dtype(dtype) /\ unique_count > TextMinDistinct

\* lines 291-375: the type and subtype of one column. primary_keys and
\* foreign_keys are the to- and from-side (table, column) pairs of
\* columns_mapping, best_match_table the table process.extractOne returns
Classify(table, column, dtype, series, primary_keys, foreign_keys, best_match_table) ==
    LET is_primary == \E k \in DOMAIN primary_keys : primary_keys[k] = <<table, column>>
        is_foreign == \E k \in DOMAIN foreign_keys : foreign_keys[k] = <<table, column>>
        label(t, st) == [type |-> t, subtype |-> st]
    IN  IF is_primary /\ is_foreign
        THEN IF table = best_match_table THEN label("key", "primary")
             ELSE label("key", "foreign")
        ELSE IF is_primary THEN label("key", "primary")
        ELSE IF is_foreign THEN label("key", "foreign")
        ELSE IF is_unique(series) THEN label("key", "internal")
        ELSE IF "_id" \in KeywordsIn(column) THEN label("key", "unknown")
        ELSE IF is_datetime64_any_dtype(dtype)
        THEN label("temporal", TemporalSubtype(series))
        ELSE IF KeywordsIn(column) \cap CoordinateKeywords # {}
        THEN label("spatial", "coordinates")
        ELSE IF KeywordsIn(column) \cap RegionKeywords # {}
        THEN label("spatial", "region")
        ELSE IF is_numeric_dtype(dtype) THEN label("numeric", NumericSubtype(dtype, series))
        ELSE IF IsText(dtype, nunique(series)) THEN label("text", "free-text")
        ELSE IF is_object_dtype(dtype) THEN label("categorical", "nominal")
        ELSE label("unknown", "unknown")

\* the data dict of one column: the common statistics and the label
InfoRow(tabs, cm, pair, best_match_table) ==
    LET series == Series(tabs, pair.table, pair.column)
        dtype == tabs[Tab(tabs, pair.table)].dtypes[pair.column]
        label == Classify(pair.table, pair.column, dtype, series,
                          [k \in DOMAIN cm |-> <<cm[k].to_table, cm[k].to_column>>],
                          [k \in DOMAIN cm |-> <<cm[k].from_table, cm[k].from_column>>],
                          best_match_table)
    IN  [table |-> pair.table, column |-> pair.column,
         count |-> Len(series),
         unique_count |-> nunique(series),
         duplicated_count |-> Len(series) - Cardinality(Range(series)),
         missing_values |-> Cardinality({i \in DOMAIN series : series[i] = NaN}),
         type |-> label.type, subtype |-> label.subtype]

\* Database.get_info: one row per (table, column) pair, in store order;
\* best_match[column] is the table process.extractOne(column, tables) returns
get_info(tabs, cm, best_match) ==
    LET all_table_column_pairs == AllTableColumnPairs(tabs)
    IN  [k \in DOMAIN all_table_column_pairs |->
            InfoRow(tabs, cm, all_table_column_pairs[k],
                    best_match[all_table_column_pairs[k].column])]

\* the columns classified: twelve cells over the values b+1, b+2, ...
InfoSeries(b) ==
    {[i \in 1..12 |-> b + i],
     [i \in 1..12 |-> IF i = 12 THEN NaN ELSE b + i],
     [i \in 1..12 |-> IF i = 12 THEN b + 1 ELSE b + i],
     [i \in 1..12 |-> IF i > 10 THEN b + 1 ELSE b + i],
     [i \in 1..12 |-> IF i > 10 THEN NaN ELSE b + i],
     [i \in 1..12 |-> b + 4 * (1 + (i % 3))],
     [i \in 1..12 |-> b + 1 + (i % 2)]}

\* the dtypes classified, each with the cells a column of the dtype can hold
InfoColumns ==
    {[dtype |-> "int64", series |-> s] : s \in InfoSeries(0)}
    \cup {[dtype |-> "float64", series |-> s] : s \in InfoSeries(0) \cup InfoSeries(50)}
    \cup {[dtype |-> "object", series |-> s] : s \in InfoSeries(100)}
    \cup {[dtype |-> "datetime64[ns]", series |-> s] : s \in InfoSeries(200)}
    \cup {[dtype |-> "timedelta64[ns]", series |-> s] : s \in InfoSeries(200)}

InfoColumnNames == {"customer_id", "name", "City", "lat", "city_id"}

\* the stores classified: orders with one column of any name and dtype,
\* customers with an integer customer_id
InfoStores ==
    {<< [name |-> "orders", columns |-> <<n>>,
         series |-> [c \in {n} |-> x.series], dtypes |-> [c \in {n} |-> x.dtype]],
        [name |-> "customers", columns |-> <<"customer_id">>,
         series |-> [c \in {"customer_id"} |-> k],
         dtypes |-> [c \in {"customer_id"} |-> "int64"]] >> :
     n \in InfoColumnNames, x \in InfoColumns,
     k \in {[i \in 1..12 |-> i], [i \in 1..12 |-> IF i > 10 THEN 1 ELSE i],
            [i \in 1..12 |-> 1 + (i % 2)]}}

\* a Database over a store of InfoStores, as __init__ leaves it
InitInfo ==
    /\ strategy = "csv"
    /\ tables \in InfoStores
    /\ columns_mapping = get_mapping(tables)
    /\ table_mapping = TableMappingOf(columns_mapping)
    /\ phase = "ready"
    /\ call = [op |-> "none", args |-> <<>>]
    /\ ret = Returned(None)
    /\ frames = <<>>
    /\ exec = NotRunning
    /\ amendments = 0
    /\ tracker = NewTracker

\* the call get_info()
GetInfo ==
    /\ phase = "ready"
    /\ call.op = "none"
    /\ \E best_match \in [{p.column : p \in Range(AllTableColumnPairs(tables))}
                                -> TableSet] :
          ret' = Returned(get_info(tables, columns_mapping, best_match))
    /\ call' = [op |-> "get_info", args |-> <<>>]
    /\ UNCHANGED <<strategy, tables, columns_mapping, table_mapping, phase,
                   frames, exec, amendments, tracker>>

NextInfo == GetInfo

SpecInfo == InitInfo /\ [][NextInfo]_vars

----------------------------------------------------------------------------
(* Claims about the Column Classifier, checked under SpecInfo *)

\* the column occurs on the to-side, resp. the from-side, of a relationship
OnToSide(t, c) ==
    \E k \in DOMAIN columns_mapping :
        columns_mapping[k].to_table = t /\ columns_mapping[k].to_column = c
OnFromSide(t, c) ==
    \E k \in DOMAIN columns_mapping :
        columns_mapping[k].from_table = t /\ columns_mapping[k].from_column = c

\* the dtype of a column and the number of its distinct values, missing
\* values not counted
DtypeOf(t, c) == tables[Tab(tables, t)].dtypes[c]
DistinctCount(t, c) == Cardinality(NonNullValues(t, c))

\* the name of the column holds a coordinate, resp. a place, keyword
CoordinateName(c) == KeywordsIn(c) \cap CoordinateKeywords # {}
RegionName(c) == KeywordsIn(c) \cap RegionKeywords # {}

\* the rules in the order of the claim: when each matches, and the labels
\* it gives
ClassifierRules(t, c) ==
    << [matches |-> OnToSide(t, c) /\ OnFromSide(t, c),
        labels |-> {<<"key", "primary">>, <<"key", "foreign">>}],
       [matches |-> OnToSide(t, c), labels |-> {<<"key", "primary">>}],
       [matches |-> OnFromSide(t, c), labels |-> {<<"key", "foreign">>}],
       [matches |-> AllUnique(t, c), labels |-> {<<"key", "internal">>}],
       [matches |-> "_id" \in KeywordsIn(c), labels |-> {<<"key", "unknown">>}],
       [matches |-> DtypeOf(t, c) = "datetime64[ns]",
        labels |-> {<<"temporal", st>> : st \in {"date", "time", "datetime"}}],
       [matches |-> CoordinateName(c), labels |-> {<<"spatial", "coordinates">>}],
       [matches |-> RegionName(c), labels |-> {<<"spatial", "region">>}],
       [matches |-> DtypeOf(t, c) \in {"int64", "float64"},
        labels |-> {<<"numeric", st>> : st \in {"discrete", "continuous", "unknown"}}],
       [matches |-> DtypeOf(t, c) = "object" /\ DistinctCount(t, c) > 10,
        labels |-> {<<"text", "free-text">>}],
       [matches |-> DtypeOf(t, c) = "object", labels |-> {<<"categorical", "nominal">>}],
       [matches |-> TRUE, labels |-> {<<"unknown", "unknown">>}] >>

\* the labels of the first rule that matches
FirstMatchLabels(t, c) ==
    LET rules == ClassifierRules(t, c)
        first == CHOOSE k \in DOMAIN rules :
                     rules[k].matches /\ \A j \in 1..(k - 1) : ~rules[j].matches
    IN  rules[first].labels

\* get_info returned one row per column of the store, each with the label of
\* the first matching rule; an all-unique column in no relationship is
\* key/internal
RowsFollowFirstMatch ==
    /\ ret.raised = "none"
    /\ Len(ret.value) = Cardinality(StoreColumns)
    /\ \A tc \in StoreColumns :
          \E k \in DOMAIN ret.value :
              /\ ret.value[k].table = tc[1] /\ ret.value[k].column = tc[2]
              /\ \A j \in DOMAIN ret.value :
                    (ret.value[j].table = tc[1] /\ ret.value[j].column = tc[2]) => j = k
    /\ \A k \in DOMAIN ret.value :
          LET t == ret.value[k].table
              c == ret.value[k].column
          IN  /\ <<ret.value[k].type, ret.value[k].subtype>> \in FirstMatchLabels(t, c)
              /\ (AllUnique(t, c) /\ ~OnToSide(t, c) /\ ~OnFromSide(t, c))
                    => <<ret.value[k].type, ret.value[k].subtype>> = <<"key", "internal">>

\* row k is a string column that no key rule matches
NonKeyString(k) ==
    LET t == ret.value[k].table
        c == ret.value[k].column
    IN  /\ DtypeOf(t, c) = "object"
        /\ ~OnToSide(t, c) /\ ~OnFromSide(t, c)
        /\ ~AllUnique(t, c)
        /\ "_id" \notin KeywordsIn(c)

\* row k is free-text with more than 10 distinct values, nominal otherwise
TextByDistinctCount(k) ==
    <<ret.value[k].type, ret.value[k].subtype>> =
        IF DistinctCount(ret.value[k].table, ret.value[k].column) > 10
        THEN <<"text", "free-text">> ELSE <<"categorical", "nominal">>

\* C20 (as claimed): get_info gives every column exactly one (type, subtype),
\* that of the first rule that matches in the order key/both-sides,
\* key/primary, key/foreign, key/internal, key/unknown, temporal,
\* spatial/coordinates, spatial/region, numeric, text, categorical, unknown;
\* an all-unique column in no relationship is key/internal; and every
\* non-key string column is free-text when it has more than 10 distinct
\* values and nominal when it has 10 or fewer.
C20_ClassifierFirstMatch ==
    call.op = "get_info" =>
        /\ RowsFollowFirstMatch
        /\ \A k \in DOMAIN ret.value : NonKeyString(k) => TextByDistinctCount(k)

\* C20 (amended): as claimed, with the last part for every non-key string
\* column whose name holds no spatial keyword.
C20_ClassifierFirstMatchAmended ==
    call.op = "get_info" =>
        /\ RowsFollowFirstMatch
        /\ \A k \in DOMAIN ret.value :
              (/\ NonKeyString(k)
               /\ ~CoordinateName(ret.value[k].column)
               /\ ~RegionName(ret.value[k].column))
              => TextByDistinctCount(k)

\* get_info has classified a string column of 11 distinct values as free text
C20_Witness ==
    /\ call.op = "get_info"
    /\ \E k \in DOMAIN ret.value :
          /\ NonKeyString(k)
          /\ DistinctCount(ret.value[k].table, ret.value[k].column) = 11
          /\ ret.value[k].type = "text"

----------------------------------------------------------------------------
(* Database.get_info over three tables: the owner of a key column that is   *)
(* on both sides of relationships in several tables                         *)

\* the cells of a key column of three rows
OwnerSeries ==
    {<<1, 2, 3>>, <<1, 2, 2>>, <<1, 2, NaN>>, <<4, 5, 6>>}

\* a table of one column
OwnerTable(t, c, s) ==
    [name |-> t, columns |-> <<c>>, series |-> [x \in {c} |-> s],
     dtypes |-> [x \in {c} |-> IF NaN \in Range(s) THEN "float64" ELSE "int64"]]

\* the stores classified: orders and payments with a customer_id column,
\* customers with a column of either name
OwnerStores ==
    {<<OwnerTable("orders", "customer_id", a),
       OwnerTable("payments", "customer_id", b),
       OwnerTable("customers", n, c)>> :
     a \in OwnerSeries, b \in OwnerSeries, c \in OwnerSeries,
     n \in {"customer_id", "name"}}

\* a Database over a store of OwnerStores, as __init__ leaves it
InitOwner ==
    /\ strategy = "csv"
    /\ tables \in OwnerStores
    /\ columns_mapping = get_mapping(tables)
    /\ table_mapping = TableMappingOf(columns_mapping)
    /\ phase = "ready"
    /\ call = [op |-> "none", args |-> <<>>]
    /\ ret = Returned(None)
    /\ frames = <<>>
    /\ exec = NotRunning
    /\ amendments = 0
    /\ tracker = NewTracker

SpecOwner == InitOwner /\ [][NextInfo]_vars

\* the tables in which column c is on the to-side and on the from-side
BothSidesTables(c) ==
    {t \in TableSet : <<t, c>> \in StoreColumns /\ OnToSide(t, c) /\ OnFromSide(t, c)}

\* the subtype get_info gave column c of table t
SubtypeOf(t, c) ==
    LET k == CHOOSE j \in DOMAIN ret.value :
                 ret.value[j].table = t /\ ret.value[j].column = c
    IN  ret.value[k].subtype

\* C21: for a column name that is key/both-sides in several tables, get_info
\* labels exactly one of these tables primary (the one whose name matches the
\* column name best) and every other one foreign.
C21_OnePrimaryOwner ==
    call.op = "get_info" =>
        \A c \in {tc[2] : tc \in StoreColumns} :
            Cardinality(BothSidesTables(c)) >= 2 =>
                /\ \A t \in BothSidesTables(c) : SubtypeOf(t, c) \in {"primary", "foreign"}
                /\ Cardinality({t \in BothSidesTables(c) : SubtypeOf(t, c) = "primary"}) = 1

----------------------------------------------------------------------------
(* IssueTracker (utils/issue_tracker.py). tracker.df is the sequence of the *)
(* rows of self.df in row order (the index labels are left out: rows are    *)
(* only reached by position and by issue_id), tracker.issue_count the       *)
(* counter.                                                                 *)

\* rows of one tracker
MaxTrackerRows == 4

\* Python None as the value of a field or of an argument that holds text
PyNone == "<None>"
\* issue_id=None
NoId == -1

\* the arguments the calls are made with
IssueIds == {NoId} \cup (0..3)
StatusArgs == {PyNone, "in progress", "resolved"}
DescriptionArgs == {PyNone, "d2"}
NotesArgs == {"n"}
RelevantDataArgs == {PyNone, "r"}

\* x.replace("\n", " and ") raises AttributeError unless x is a string
HasReplace(x) == x # PyNone

\* what a call leaves behind: the tracker and what the call returned or raised
Outcome(tr, result) == [tracker |-> tr, result |-> result]

\* mutant: issue_count is incremented after the prints, so not when they fail
add_issue_counting_after_prints(tr, description, relevant_data, potential_cause, notes) ==
    LET issue == [issue_id |-> tr.issue_count + 1,
                  version |-> 1,
                  status |-> "Open",
                  description |-> description,
                  resolution |-> PyNone,
                  potential_cause |-> potential_cause,
                  relevant_data |-> relevant_data,
                  notes |-> notes]
    IN  IF HasReplace(issue.relevant_data)
        THEN Outcome([df |-> Append(tr.df, issue), issue_count |-> tr.issue_count + 1],
                     Returned(None))
        ELSE Outcome([df |-> Append(tr.df, issue), issue_count |-> tr.issue_count],
                     Raised("AttributeError", <<"replace">>))

\* IssueTracker.add_issue
add_issue(tr, description, relevant_data, potential_cause, notes) ==
    LET issue == [issue_id |-> tr.issue_count + 1,
                  version |-> 1,
                  status |-> "Open",
                  description |-> description,
                  resolution |-> PyNone,
                  potential_cause |-> potential_cause,
                  relevant_data |-> relevant_data,
                  notes |-> notes]
        after == [df |-> Append(tr.df, issue), issue_count |-> tr.issue_count + 1]
    IN  IF HasReplace(issue.relevant_data)
        THEN Outcome(after, Returned(None))
        ELSE Outcome(after, Raised("AttributeError", <<"replace">>))

\* the rows update_issue picks the issue from: self.df, or
\* self.df.loc[self.df["issue_id"] == issue_id, :]
RowsPicked(tr, issue_id) ==
    IF issue_id = NoId THEN tr.df
    ELSE SelectSeq(tr.df, LAMBDA row : row.issue_id = issue_id)

\* new_issue after "Apply the updates" and "overwrite notes always"
Updated(new_issue, status, description, potential_cause, relevant_data, notes, resolution) ==
    [new_issue EXCEPT
        !.status = IF status # PyNone THEN status ELSE @,
        !.description = IF description # PyNone THEN description ELSE @,
        !.potential_cause = IF potential_cause # PyNone THEN potential_cause ELSE @,
        !.relevant_data = IF relevant_data # PyNone THEN relevant_data ELSE @,
        !.resolution = IF resolution # PyNone THEN resolution ELSE @,
        !.notes = notes]

\* mutant: update_issue without the test for a resolved issue
update_issue_without_resolved_check(tr, status, description, potential_cause, relevant_data, notes, issue_id, resolution) ==
    LET picked == RowsPicked(tr, issue_id)
    IN  IF picked = <<>>
        THEN Outcome(tr, Raised("IndexError", <<"single positional indexer is out-of-bounds">>))
        ELSE LET issue == picked[Len(picked)]
                 new_issue == [issue EXCEPT !.version = issue.version + 1]
                 row == Updated(new_issue, status, description, potential_cause,
                                relevant_data, notes, resolution)
                 after == [tr EXCEPT !.df = Append(tr.df, row)]
             IN  IF HasReplace(row.relevant_data)
                 THEN Outcome(after, Returned(None))
                 ELSE Outcome(after, Raised("AttributeError", <<"replace">>))

\* IssueTracker.update_issue
update_issue(tr, status, description, potential_cause, relevant_data, notes, issue_id, resolution) ==
    LET picked == RowsPicked(tr, issue_id)
    IN  IF picked = <<>>
        THEN Outcome(tr, Raised("IndexError", <<"single positional indexer is out-of-bounds">>))
        ELSE LET issue == picked[Len(picked)]
                 new_issue == [issue EXCEPT !.version = issue.version + 1]
             IN  IF new_issue.status = "resolved" /\ issue.issue_id = new_issue.issue_id
                 THEN Outcome(tr, Raised("Exception", <<"Issue already resolved.">>))
                 ELSE LET row == Updated(new_issue, status, description, potential_cause,
                                         relevant_data, notes, resolution)
                          after == [tr EXCEPT !.df = Append(tr.df, row)]
                      IN  IF HasReplace(row.relevant_data)
                          THEN Outcome(after, Returned(None))
                          ELSE Outcome(after, Raised("AttributeError", <<"replace">>))

\* IssueTracker.resolve_issue: "if not issue_id" holds for None and for 0
resolve_issue(tr, resolution, issue_id) ==
    update_issue(tr, "resolved", PyNone, PyNone, PyNone, PyNone,
                 IF issue_id = NoId \/ issue_id = 0 THEN tr.issue_count ELSE issue_id,
                 resolution)

\* a call on the tracker with the outcome out; call.args is <<issue_id>>
TrackerCall(op, issue_id, out) ==
    /\ Len(out.tracker.df) <= MaxTrackerRows
    /\ tracker' = out.tracker
    /\ ret' = out.result
    /\ call' = [op |-> op, args |-> <<issue_id>>]
    /\ UNCHANGED <<strategy, tables, columns_mapping, table_mapping, phase,
                   frames, exec, amendments>>

AddIssue ==
    \E relevant_data \in RelevantDataArgs :
        TrackerCall("add_issue", NoId,
                    add_issue(tracker, "d", relevant_data, PyNone, PyNone))

UpdateIssue ==
    \E status \in StatusArgs, description \in DescriptionArgs, notes \in NotesArgs,
       issue_id \in IssueIds :
        TrackerCall("update_issue", issue_id,
                    update_issue(tracker, status, description, PyNone, PyNone, notes,
                                 issue_id, PyNone))

ResolveIssue ==
    \E issue_id \in IssueIds :
        TrackerCall("resolve_issue", issue_id, resolve_issue(tracker, "fixed", issue_id))

\* a new IssueTracker (no Database is involved)
InitTracker ==
    /\ strategy = "csv"
    /\ tables = <<>>
    /\ columns_mapping = <<>>
    /\ table_mapping = <<>>
    /\ phase = "loaded"
    /\ call = [op |-> "none", args |-> <<>>]
    /\ ret = Returned(None)
    /\ frames = <<>>
    /\ exec = NotRunning
    /\ amendments = 0
    /\ tracker = NewTracker

NextTracker == AddIssue \/ UpdateIssue \/ ResolveIssue

SpecTracker == InitTracker /\ [][NextTracker]_vars


----------------------------------------------------------------------------
(* Claims about the IssueTracker, checked under SpecTracker *)

\* the last call appended a row (it returned, or failed only after the append)
RowAppended == ret.raised \in {"none", "AttributeError"}

LastRow == tracker.df[Len(tracker.df)]

\* C22: update_issue called without issue_id appends a new version of the
\* most recently added issue, the one whose id is issue_count (the issue
\* resolve_issue targets when it is called without issue_id).
C22_UpdateTargetsNewestIssue ==
    (/\ call.op = "update_issue"
     /\ call.args = <<NoId>>
     /\ RowAppended)
    => LastRow.issue_id = tracker.issue_count


----------------------------------------------------------------------------
(* create_flag (analysis/wrangle.py; da_helper.py holds the same function). *)
(* The frame df is the one table of the store; a cell is NaN, a number, or  *)
(* a number above 100 that stands for a string (as in get_info above). A    *)
(* label assigned to a column of another dtype is stored as it is (the      *)
(* column is upcast to object).                                             *)

\* -np.inf and np.inf, below and above every number of a cell or a limit
NegInf == -100
PosInf == 100

\* the cell is a string
IsString(x) == x > PosInf

\* the numbers of the cells and of the limits, the labels (two numbers, two
\* strings), the lengths of limits and the rows of df
FlagNumbers == 1..3
FlagLabels == {1, 3, 101, 102}
MaxLimits == 2
FlagRows == 2

\* sorted(limits)
RECURSIVE InsertSorted(_, _)
InsertSorted(x, s) ==
    IF s = <<>> THEN <<x>>
    ELSE IF x <= Head(s) THEN <<x>> \o s
    ELSE <<Head(s)>> \o InsertSorted(x, Tail(s))

RECURSIVE sorted(_)
sorted(s) == IF s = <<>> THEN <<>> ELSE InsertSorted(Head(s), sorted(Tail(s)))

\* (df[col] > lo) & (df[col] <= hi) for one cell; NaN compares False
InInterval(x, lo, hi) == x # NaN /\ x > lo /\ x <= hi

\* df.loc[mask, flag_col] = label; a column that is new holds NaN elsewhere
SetWhere(df, mask, flag_col, label) ==
    LET is_new == ~SeqContains(df.columns, flag_col)
        columns == IF is_new THEN Append(df.columns, flag_col) ELSE df.columns
        old(r) == IF is_new THEN NaN ELSE df.series[flag_col][r]
    IN  [name |-> df.name, columns |-> columns,
         series |-> [c \in Range(columns) |->
                        IF c = flag_col
                        THEN [r \in DOMAIN mask |-> IF mask[r] THEN label ELSE old(r)]
                        ELSE df.series[c]]]

\* the for loop of create_flag from index i (0-based, as in the code): the
\* frame it leaves and what the call returns or raises. Comparing a column
\* that holds a string with a limit raises TypeError.
RECURSIVE FlagLoop(_, _, _, _, _, _)
FlagLoop(df, col, flag_col, limits, labels, i) ==
    IF i >= Len(labels) THEN [df |-> df, result |-> Returned(None)]
    ELSE IF \E r \in DOMAIN df.series[col] : IsString(df.series[col][r])
    THEN [df |-> df, result |-> Raised("TypeError", <<"'>' not supported">>)]
    ELSE LET mask == [r \in DOMAIN df.series[col] |->
                         InInterval(df.series[col][r], limits[i + 1], limits[i + 2])]
         IN  FlagLoop(SetWhere(df, mask, flag_col, labels[i + 1]),
                      col, flag_col, limits, labels, i + 1)

\* create_flag(df, col, flag_col, limits, labels)
create_flag(df, col, flag_col, limits, labels) ==
    IF Len(labels) # Len(limits) + 1
    THEN [df |-> df,
          result |-> Raised("Exception",
              <<"The number of labels must be one more than the number of limits">>)]
    ELSE IF limits # sorted(limits)
    THEN [df |-> df,
          result |-> Raised("Exception",
              <<"The limits list must be monotonically increasing">>)]
    ELSE FlagLoop(df, col, IF flag_col = PyNone THEN col ELSE flag_col,
                  <<NegInf>> \o limits \o <<PosInf>>, labels, 0)

\* the frames flagged: one column v of FlagRows cells
FlagFrames ==
    {<< [name |-> "df", columns |-> <<"v">>, series |-> [c \in {"v"} |-> s]] >> :
        s \in [1..FlagRows -> {NaN} \cup FlagNumbers]}

InitFlag ==
    /\ strategy = "csv"
    /\ tables \in FlagFrames
    /\ columns_mapping = <<>>
    /\ table_mapping = <<>>
    /\ phase = "loaded"
    /\ call = [op |-> "none", args |-> <<>>]
    /\ ret = Returned(None)
    /\ frames = <<>>
    /\ exec = NotRunning
    /\ amendments = 0
    /\ tracker = NewTracker

\* the call create_flag(df, "v", flag_col, limits, labels) on a fresh frame
CreateFlag ==
    /\ call.op = "none"
    /\ \E flag_col \in {PyNone, "flag"},
          limits \in UNION {[1..n -> FlagNumbers] : n \in 0..MaxLimits},
          labels \in UNION {[1..n -> FlagLabels] : n \in 1..(MaxLimits + 1)} :
          LET out == create_flag(tables[1], "v", flag_col, limits, labels)
          IN  /\ tables' = <<out.df>>
              /\ ret' = out.result
              /\ call' = [op |-> "create_flag", args |-> <<"v", flag_col, limits, labels>>]
    /\ UNCHANGED <<strategy, columns_mapping, table_mapping, phase, frames, exec,
                   amendments, tracker>>

NextFlag == CreateFlag

SpecFlag == InitFlag /\ [][NextFlag]_vars

----------------------------------------------------------------------------
(* Claims about create_flag, checked under SpecFlag *)

\* the index of the single interval (limits[i-1], limits[i]] that holds v,
\* with -infinity and +infinity as outer bounds: 1 + the limits below v
IntervalOf(v, limits) == 1 + Cardinality({k \in DOMAIN limits : limits[k] < v})

\* the call made in this step has sorted limits and one label more than limits
WellFormedFlagCall ==
    /\ call'.op = "create_flag"
    /\ Len(call'.args[4]) = Len(call'.args[3]) + 1
    /\ \A j, k \in DOMAIN call'.args[3] : j < k => call'.args[3][j] <= call'.args[3][k]

\* every row with a finite number in col ends with the label of its interval
FlagsFollowIntervals ==
    LET flag_col == IF call'.args[2] = PyNone THEN call'.args[1] ELSE call'.args[2]
        limits == call'.args[3]
        labels == call'.args[4]
        before == tables[1].series[call'.args[1]]
    IN  /\ ret'.raised = "none"
        /\ SeqContains(tables'[1].columns, flag_col)
        /\ \A r \in DOMAIN before :
              before[r] # NaN =>
                  tables'[1].series[flag_col][r] = labels[IntervalOf(before[r], limits)]

\* C23: for limits sorted increasingly and len(labels) = len(limits) + 1,
\* create_flag leaves every row whose value in col is a finite number with
\* the label of the single interval (limits[i-1], limits[i]] that holds the
\* row's original value, for every choice of labels, with a separate
\* flag_col and with col itself overwritten.
C23_FlagIsIntervalOfOriginalValue ==
    [][WellFormedFlagCall => FlagsFollowIntervals]_vars


----------------------------------------------------------------------------
(* Claims about missing values in candidate primary keys, checked under     *)
(* SpecInfer                                                                *)

\* the number of missing cells of a column
MissingCount(t, c) ==
    Cardinality({i \in DOMAIN Series(tables, t, c) : Series(tables, t, c)[i] = NaN})

\* the column holds exactly one null and otherwise pairwise-distinct values
OneNullOtherwiseDistinct(t, c) ==
    /\ MissingCount(t, c) = 1
    /\ \A i, j \in DOMAIN Series(tables, t, c) :
          (Series(tables, t, c)[i] # NaN /\ Series(tables, t, c)[i] = Series(tables, t, c)[j])
              => i = j

\* a relationship from column F to column P has been emitted
Emitted(F, P) ==
    \E i \in DOMAIN columns_mapping :
        /\ columns_mapping[i].from_table = F[1] /\ columns_mapping[i].from_column = F[2]
        /\ columns_mapping[i].to_table = P[1] /\ columns_mapping[i].to_column = P[2]

\* C24 (as claimed): a column that holds exactly one null and otherwise
\* pairwise-distinct values is disqualified as a candidate primary key:
\* value-based inference emits no Relationship whose to-side is such a column.
C24_OneNullDisqualifies ==
    phase = "ready" =>
        \A i \in DOMAIN columns_mapping :
            ~OneNullOtherwiseDistinct(columns_mapping[i].to_table,
                                      columns_mapping[i].to_column)

\* C24 (amended): a column that holds exactly one null and otherwise
\* pairwise-distinct values is a candidate primary key (the null counts as
\* one more distinct value): value-based inference emits a Relationship to it
\* from every other column that has a non-null value and whose non-null
\* values all occur in it; only a column with two or more nulls is never a
\* to-side.
C24_OneNullStillCandidate ==
    phase = "ready" =>
        /\ \A P \in StoreColumns : \A F \in StoreColumns :
              (/\ OneNullOtherwiseDistinct(P[1], P[2])
               /\ F # P
               /\ NonNullValues(F[1], F[2]) # {}
               /\ NonNullValues(F[1], F[2]) \subseteq NonNullValues(P[1], P[2]))
              => Emitted(F, P)
        /\ \A i \in DOMAIN columns_mapping :
              MissingCount(columns_mapping[i].to_table, columns_mapping[i].to_column) <= 1

\* the inference has emitted a relationship whose to-side column holds one
\* null beside a value
C24_Witness ==
    /\ phase = "ready"
    /\ call.op = "__init__"
    /\ \E i \in DOMAIN columns_mapping :
          /\ OneNullOtherwiseDistinct(columns_mapping[i].to_table,
                                      columns_mapping[i].to_column)
          /\ NonNullValues(columns_mapping[i].to_table, columns_mapping[i].to_column) # {}


----------------------------------------------------------------------------
(* Claims about the Relationship Graph at initialisation, checked under Spec *)

\* every consecutive pair of the path has a Relationship Set entry
EveryPairMapped(path) ==
    \A k \in 1..(Len(path) - 1) : EntriesFromTo(path[k], path[k + 1]) >= 1

\* the message of the error planning raises for the pair (a, b)
NoMappingMessage(a, b) == <<"No mapping found between " \o a \o " and " \o b>>

\* C25: at store initialisation the Relationship Graph lists B under A
\* exactly when the Relationship Set has an entry with from_table = A and
\* to_table = B; every consecutive pair of every path findPath (and
\* findMultiPath) returns has at least one entry; and when planning such a
\* path fails at a pair, the pair has several entries, never none.
C25_GraphPathsAreMapped ==
    /\ \A a \in TableSet, b \in TableSet :
          (a \in DOMAIN table_mapping /\ SeqContains(table_mapping[a], b))
              <=> EntriesFromTo(a, b) >= 1
    /\ (call.op = "_get_relationship_path" /\ ret.raised = "none" /\ ~ret.value.none)
          => EveryPairMapped(ret.value.path)
    /\ (call.op = "_get_multi_rel_path" /\ ret.raised = "none")
          => \A k \in DOMAIN ret.value :
                 ~ret.value[k].none => EveryPairMapped(ret.value[k].path)
    /\ (call.op = "easy_merge" /\ ret.raised = "Exception")
          => \E a \in TableSet, b \in TableSet :
                 /\ ret.msg = NoMappingMessage(a, b)
                 /\ EntriesFromTo(a, b) >= 2

\* findPath has returned a path through three tables of the graph
C25_Witness ==
    /\ call.op = "_get_relationship_path"
    /\ ret.raised = "none"
    /\ ~ret.value.none
    /\ Len(ret.value.path) = 3
    /\ EveryPairMapped(ret.value.path)


----------------------------------------------------------------------------
(* Claims about resolved issues, checked under SpecTracker *)

\* the rows (versions) of issue i, in row order
VersionsOf(tr, i) == SelectSeq(tr.df, LAMBDA row : row.issue_id = i)

\* the latest version of issue i has the status "resolved"
IsResolved(tr, i) ==
    /\ VersionsOf(tr, i) # <<>>
    /\ VersionsOf(tr, i)[Len(VersionsOf(tr, i))].status = "resolved"

\* the issue the call of this step is aimed at (0: none): the issue_id given;
\* without one, the issue of the last row for update_issue and the issue
\* issue_count for resolve_issue
AimedAt ==
    IF call'.op = "update_issue"
    THEN IF call'.args[1] # NoId THEN call'.args[1]
         ELSE IF tracker.df = <<>> THEN 0
         ELSE tracker.df[Len(tracker.df)].issue_id
    ELSE IF call'.op = "resolve_issue"
    THEN IF call'.args[1] \in {NoId, 0} THEN tracker.issue_count ELSE call'.args[1]
    ELSE 0

\* C26: once the latest version of an issue has status "resolved", every
\* later update_issue or resolve_issue aimed at it raises "Issue already
\* resolved." and leaves the rows and issue_count unchanged; a resolved issue
\* never gets a further version and never leaves the resolved status.
C26_ResolvedIsFinal ==
    [][/\ IsResolved(tracker, AimedAt)
          => /\ ret'.raised = "Exception"
             /\ ret'.msg = <<"Issue already resolved.">>
             /\ tracker' = tracker
       /\ \A i \in 1..tracker.issue_count :
             IsResolved(tracker, i)
                => /\ VersionsOf(tracker', i) = VersionsOf(tracker, i)
                   /\ IsResolved(tracker', i)]_vars

\* a call aimed at a resolved issue has been made and has raised
C26_Witness ==
    /\ call.op \in {"update_issue", "resolve_issue"}
    /\ call.args[1] \in 1..tracker.issue_count
    /\ IsResolved(tracker, call.args[1])
    /\ ret.raised = "Exception"


----------------------------------------------------------------------------
(* Claims about the shape of the Join Plan, checked under SpecMerge *)

\* the running easy_merge has resolved its request into sub-paths, none None
PathsResolved ==
    /\ exec.pc # "idle"
    /\ exec.multi_path.raised = "none"
    /\ \A k \in DOMAIN exec.multi_path.value : ~exec.multi_path.value[k].none

\* the running easy_merge has planned its join steps
StepsPlanned == PathsResolved /\ exec.merge_sequence.raised = "none"

\* sub-path k starts at a table of an earlier sub-path and holds no other
\* table of an earlier sub-path
HooksOntoEarlier(sub_paths, k) ==
    LET earlier == DistinctTables(SubSeq(sub_paths, 1, k - 1))
        path == sub_paths[k].path
    IN  /\ path[1] \in earlier
        /\ \A j \in 2..Len(path) : path[j] \notin earlier

\* the tables of the accumulated result before step k of the plan runs
Accumulated(plan, k) ==
    {plan[1].from_table} \cup {plan[j].to_table : j \in 1..(k - 1)}

\* C27: in every plan findMultiPath returns for distinct requested tables,
\* each sub-path after the first starts at a table of an earlier sub-path and
\* holds no other table of an earlier sub-path; so each table is the to-table
\* of at most one join step, the from-table of every step is in the
\* accumulated result when the step runs, and no table is merged a second
\* time.
C27_SubPathsHookOntoCovered ==
    /\ PathsResolved =>
          \A k \in 2..Len(exec.multi_path.value) :
              HooksOntoEarlier(exec.multi_path.value, k)
    /\ StepsPlanned =>
          LET plan == exec.merge_sequence.value
          IN  /\ \A j, k \in DOMAIN plan : plan[j].to_table = plan[k].to_table => j = k
              /\ \A k \in DOMAIN plan :
                    /\ plan[k].from_table \in Accumulated(plan, k)
                    /\ plan[k].to_table \notin Accumulated(plan, k)
    /\ exec.pc # "idle" =>
          \A n \in DOMAIN exec.out : exec.out[n] # <<"PROBLEM. TABLE PAIR MERGED 2nd TIME">>

\* an easy_merge over two sub-paths has joined three tables
C27_Witness ==
    /\ exec.pc = "done"
    /\ StepsPlanned
    /\ Len(exec.multi_path.value) = 2
    /\ Len(exec.merge_sequence.value) = 2
    /\ exec.joins = 2


----------------------------------------------------------------------------
(* Claims about the determinism of planning, checked under Spec *)

\* what findMultiPath can return for the list, over the iteration orders the
\* set distinct_tables can have in a run
MultiPathOutcomes(list) ==
    {_get_multi_rel_path(table_mapping, list, ho) : ho \in HashOrders(list)}

\* C28: findMultiPath / easy_merge is deterministic: two runs with the same
\* Table Store, the same Relationship Set and the same ordered request give
\* the same sub-paths and the same Join Plan; the choice among equally short
\* paths from several covered tables depends on nothing but these inputs.
C28_PlanIsDeterministic ==
    /\ call.op = "_get_multi_rel_path" => MultiPathOutcomes(call.args) = {ret}
    /\ call.op = "easy_merge" => Cardinality(PlanOutcomes(call.args)) = 1


\* the outcome is a plan: a list of sub-paths, none of them None
YieldsPlan(out) ==
    /\ out.raised = "none"
    /\ \A k \in DOMAIN out.value : ~out.value[k].none

\* C29: for a fixed Relationship Set, whether findMultiPath yields a plan for
\* a set of requested tables does not depend on the order in which they are
\* listed: when a plan is produced for one ordering, one is produced for
\* every permutation of it.
C29_PlanForEveryOrdering ==
    (call.op = "_get_multi_rel_path" /\ YieldsPlan(ret))
    => \A list \in IterationOrders(Range(call.args)) :
           \A out \in MultiPathOutcomes(list) : YieldsPlan(out)


----------------------------------------------------------------------------
(* Claims about the history of the IssueTracker, checked under SpecTracker *)

\* the issue ids present are exactly 1..issue_count; the versions of each
\* issue are 1, 2, ... in row order; every version-1 row has status "Open"
HistoryWellFormed ==
    /\ {tracker.df[k].issue_id : k \in DOMAIN tracker.df} = 1..tracker.issue_count
    /\ \A i \in 1..tracker.issue_count :
          /\ \A j \in DOMAIN VersionsOf(tracker, i) : VersionsOf(tracker, i)[j].version = j
          /\ VersionsOf(tracker, i)[1].status = "Open"

\* the rows recorded before the step are the first rows after it, unchanged
AppendOnly ==
    /\ Len(tracker'.df) >= Len(tracker.df)
    /\ SubSeq(tracker'.df, 1, Len(tracker.df)) = tracker.df

\* C30: after any sequence of add_issue, update_issue and resolve_issue
\* calls, failing calls included, the issue ids present are exactly
\* 1..issue_count, the versions of each issue are exactly 1..k in row order,
\* every issue's version-1 row has status "Open", and rows already recorded
\* are never changed or removed.
C30_HistoryIsAppendOnly ==
    /\ []HistoryWellFormed
    /\ [][AppendOnly]_vars

\* two issues, one of them with two versions, after a call that failed
C30_Witness ==
    /\ tracker.issue_count = 2
    /\ \E i \in 1..2 : Len(VersionsOf(tracker, i)) = 2
    /\ ret.raised # "none"

====
